---- MODULE Spec2Model ----
(***************************************************************************)
(* A model of the online learning and decision loop of                     *)
(* trading_system_24x7_final.py: the paper-trade position lifecycle        *)
(* (PaperTrade), the feature schema and training pipeline of               *)
(* AdvancedMLDecisionEngine, and the per-tick cycle of                     *)
(* OptimizedATMAnalyzer (run_analysis / run_offline_simulation).           *)
(*                                                                         *)
(* Money is counted in paise (1/100 rupee) and percentages in hundredths,  *)
(* so that the float products of the source (entry * 1.10, entry * 0.4,    *)
(* max_profit * 0.5) are exact integers for whole-rupee entry prices.      *)
(* Every method is a pure operator from the object's state and the call's  *)
(* arguments to the new state and the returned value; an action applies    *)
(* one method (or one whole cycle of the run loop) to inputs drawn from    *)
(* small sets.                                                             *)
(***************************************************************************)
EXTENDS Integers, Sequences, FiniteSets, TLC

VARIABLES
    paper_trade,   \* the PaperTrade object
    now,           \* the wall clock, datetime.now(), in seconds
    ml_engine,     \* the AdvancedMLDecisionEngine object
    analyzer,      \* the OptimizedATMAnalyzer's own fields
    regime_detector, \* the MarketRegimeDetector object
    last           \* the last call: its arguments, the state before it, what it returned

vars == <<paper_trade, now, ml_engine, analyzer, regime_detector, last>>

----------------------------------------------------------------------------
(* Values of the dynamically typed arguments.  An argument is a tagged     *)
(* value: an int, a float or something that is no number (a str / None).   *)

PyInt(v)   == [t |-> "int", v |-> v]
PyFloat(v) == [t |-> "float", v |-> v]
NoNumber      == [t |-> "str", v |-> 0]

IsInt(x)     == x.t = "int"
IsNumber(x)  == x.t \in {"int", "float"}

Min(a, b) == IF a <= b THEN a ELSE b
Max(a, b) == IF a >= b THEN a ELSE b
Clamp(lo, hi, x) == Max(lo, Min(hi, x))

(* Python's round(): round half to even, of n / d for d > 0 and n >= 0.    *)
RoundHalfEven(n, d) ==
    LET q == n \div d
        r == n % d
    IN  IF 2 * r < d THEN q
        ELSE IF 2 * r > d THEN q + 1
        ELSE IF q % 2 = 0 THEN q ELSE q + 1

----------------------------------------------------------------------------
(* Bounds of the model.                                                    *)

MaxTicks == 1          \* the clock advances at most this many times

(* The sizes the engine is configured with, scaled down: the source's      *)
(* values are in the comments.                                             *)
MinTrainingSamples == 2    \* min_training_samples (Config.MIN_TRAINING_SAMPLES, 50)
MaxTrainingSamples == 2    \* max_training_samples (Config.MAX_TRAINING_SAMPLES, 2000)
MetaMinSamples == 2        \* len(X_scaled) >= 50 for the meta-learner
SequenceLength == 2        \* sequence_length (10)
MinSequences == 2          \* len(sequence_buffer) >= 100 in _train_deep_model
MaxSequences == 2          \* SequenceBuffer(maxlen=1000)

(* The sizes of the market data buffer of PaperTrade, scaled down.         *)
MaxBufferSize == 2         \* max_buffer_size (1000)
MinMarketBuffer == 2       \* len(market_data_buffer) < 10: no training samples
MarketSamples == 1         \* len(training_data) >= 20, training_data[-20:]

----------------------------------------------------------------------------
(* PaperTrade                                                              *)

NoTime == -1           \* entry_time = None
NoAttr == -1           \* the attribute ml_trailing_stop_pct does not exist yet

TimeLimit == 7200      \* seconds
TickSeconds == 7201    \* one advance of the clock

TrailMinMaxProfit == 800   \* max_profit > 8.0
TrailMinProfit == 200      \* profit > 2.0

Regimes == {"trending_low_vol", "sideways_low_vol", "unknown"}
IsTrending(r) == r \in {"trending_low_vol", "trending_medium_vol", "trending_high_vol"}
IsSideways(r) == r \in {"sideways_low_vol", "sideways_medium_vol", "sideways_high_vol"}

(* PaperTrade.__init__: every field it assigns.  ml_trailing_stop_pct is   *)
(* not among them: it is created by enter() and survives reset().  The     *)
(* market data buffer is kept by its length.                               *)
PaperTradeInit(trail) ==
    [position |-> "None", entry_price |-> 0, entry_time |-> NoTime,
     entry_strike |-> 0, direction |-> 0, active |-> FALSE, pnl |-> 0,
     max_profit |-> 0, position_size |-> 0, regime |-> "unknown",
     stop_loss |-> 0, profit_target |-> 0, market_data_buffer |-> 0,
     ml_trailing_stop_pct |-> trail]

reset_active_only(pt) == [pt EXCEPT !.active = FALSE]

(* PaperTrade.reset: self.__init__().                                      *)
reset(pt) == PaperTradeInit(pt.ml_trailing_stop_pct)

calculate_exit_levels_below(pt, entry_price, regime) ==
    [pt EXCEPT !.stop_loss = (entry_price * 90) \div 100,
               !.profit_target = (entry_price * 6) \div 10]

(* PaperTrade.calculate_exit_levels.                                       *)
calculate_exit_levels(pt, entry_price, regime) ==
    [pt EXCEPT !.stop_loss = (entry_price * 110) \div 100,
               !.profit_target =
                    IF IsTrending(regime) THEN (entry_price * 5) \div 10
                    ELSE IF IsSideways(regime) THEN (entry_price * 7) \div 10
                    ELSE (entry_price * 6) \div 10]

(* A prediction record as enter() reads it: position_size, stop_loss_pct,  *)
(* trailing_stop_pct and confidence, each in hundredths, each possibly no  *)
(* number.  NoPrediction is ml_predictions = None.                         *)
NoPrediction == [given |-> FALSE, position_size |-> NoNumber, stop_loss_pct |-> NoNumber,
                 trailing_stop_pct |-> NoNumber, confidence |-> NoNumber]
Prediction(ps, sl, ts, c) ==
    [given |-> TRUE, position_size |-> ps, stop_loss_pct |-> sl,
     trailing_stop_pct |-> ts, confidence |-> c]

(* The fields enter() assigns before it looks at the prediction record.    *)
EnterBase(pt, direction, ltp, strike, regime, clock) ==
    [pt EXCEPT !.position = IF direction.v = 1 THEN "SHORT_PUT" ELSE "SHORT_CALL",
               !.entry_price = ltp.v,
               !.entry_strike = strike.v,
               !.entry_time = clock,
               !.direction = direction.v,
               !.active = TRUE,
               !.regime = regime]

(* The branch of enter() that uses the prediction record, statement by     *)
(* statement: a float() of a value that is no number raises, and the       *)
(* except clause returns False with the assignments made so far kept.      *)
EnterWithPrediction(pt0, position_size, p) ==
    LET ps    == IF IsNumber(p.position_size) THEN p.position_size.v ELSE 50
        lots  == Max(1, RoundHalfEven(ps * 10, 100))
        pt1   == [pt0 EXCEPT !.position_size = Max(position_size, lots)]
        slpct == Clamp(5, 20, p.stop_loss_pct.v)
        pt2   == [pt1 EXCEPT !.stop_loss = (pt1.entry_price * (100 + slpct)) \div 100]
        pt3   == [pt2 EXCEPT !.ml_trailing_stop_pct = Clamp(30, 80, p.trailing_stop_pct.v)]
        conf  == Clamp(0, 100, p.confidence.v)
        pt4   == [pt3 EXCEPT !.profit_target =
                      IF conf > 80 THEN (pt3.entry_price * 4) \div 10
                      ELSE IF conf > 70 THEN (pt3.entry_price * 6) \div 10
                      ELSE (pt3.entry_price * 7) \div 10]
    IN  IF ~IsNumber(p.stop_loss_pct) THEN [pt |-> pt1, ret |-> FALSE]
        ELSE IF ~IsNumber(p.trailing_stop_pct) THEN [pt |-> pt2, ret |-> FALSE]
        ELSE IF ~IsNumber(p.confidence) THEN [pt |-> pt3, ret |-> FALSE]
        ELSE [pt |-> pt4, ret |-> TRUE]

(* The branch of enter() without a prediction record.                      *)
EnterTraditional(pt0, position_size, regime) ==
    LET pt1 == [pt0 EXCEPT !.position_size = Max(1, position_size),
                           !.ml_trailing_stop_pct = 50]
    IN  [pt |-> calculate_exit_levels(pt1, pt1.entry_price, regime), ret |-> TRUE]

(* PaperTrade.enter(direction, ltp, strike, position_size, regime,         *)
(* ml_predictions) at time clock.                                          *)
enter(pt, direction, ltp, strike, position_size, regime, p, clock) ==
    IF ~IsInt(direction) \/ direction.v \notin {-1, 1} THEN [pt |-> pt, ret |-> FALSE]
    ELSE IF ~IsNumber(ltp) \/ ltp.v <= 0 THEN [pt |-> pt, ret |-> FALSE]
    ELSE IF ~IsNumber(strike) THEN [pt |-> pt, ret |-> FALSE]
    ELSE LET pt0 == EnterBase(pt, direction, ltp, strike, regime, clock)
         IN  IF p.given THEN EnterWithPrediction(pt0, position_size, p)
             ELSE EnterTraditional(pt0, position_size, regime)

(* A snapshot (current_data) is a table: a sequence of rows               *)
(* [Strike, Call_LTP, Put_LTP].  The rows whose Strike is the given one,   *)
(* in table order (current_data[current_data['Strike'] == strike]).        *)
StrikeData(current_data, strike) ==
    SelectSeq(current_data, LAMBDA row : row.Strike = strike)

(* collect_market_data_for_training: one snapshot more in the buffer,      *)
(* which keeps its last MaxBufferSize; nothing without the ATM row.        *)
collect_market_data_for_training(pt, current_data, atm_strike) ==
    IF StrikeData(current_data, atm_strike) = <<>> THEN pt
    ELSE [pt EXCEPT !.market_data_buffer = Min(@ + 1, MaxBufferSize)]

(* get_training_data_from_market_buffer: the number of samples it returns, *)
(* one for each pair of consecutive snapshots; 0 for None.                 *)
get_training_data_from_market_buffer(pt) ==
    IF pt.market_data_buffer < MinMarketBuffer THEN 0
    ELSE pt.market_data_buffer - 1

(* What check_exit returns: None, or (outcome, pnl, trade_data).           *)
NoExit == [exited |-> FALSE, outcome |-> 0, pnl |-> 0, exit_reason |-> "None",
           exit_price |-> 0]
ExitResult(outcome, pnl, reason, price) ==
    [exited |-> TRUE, outcome |-> outcome, pnl |-> pnl, exit_reason |-> reason,
     exit_price |-> price]

(* The retracement allowance of the trailing stop, in hundredths.          *)
TrailingPct(pt, regime) ==
    IF pt.ml_trailing_stop_pct # NoAttr /\ pt.ml_trailing_stop_pct # 0
    THEN pt.ml_trailing_stop_pct
    ELSE IF IsTrending(regime) THEN 40
    ELSE IF IsSideways(regime) THEN 60
    ELSE 50

ExitReasonSignalFirst(pt, current_ltp, profit, max_profit, signal, regime, clock) ==
    IF signal = 0 \/ signal # pt.direction THEN "Signal Change"
    ELSE IF current_ltp >= pt.stop_loss THEN "Stop Loss"
    ELSE IF current_ltp <= pt.profit_target THEN "Profit Target"
    ELSE IF pt.entry_time # NoTime /\ clock - pt.entry_time > TimeLimit THEN "Time Exit"
    ELSE IF max_profit > TrailMinMaxProfit /\ profit > TrailMinProfit
            /\ profit * 100 < max_profit * TrailingPct(pt, regime)
         THEN "Trailing Stop"
    ELSE "None"

(* The if / elif chain of check_exit: the exit reason, "None" for none.    *)
(* max_profit is the value after this call's update.                       *)
ExitReason(pt, current_ltp, profit, max_profit, signal, regime, clock) ==
    IF current_ltp >= pt.stop_loss THEN "Stop Loss"
    ELSE IF signal = 0 \/ signal # pt.direction THEN "Signal Change"
    ELSE IF current_ltp <= pt.profit_target THEN "Profit Target"
    ELSE IF pt.entry_time # NoTime /\ clock - pt.entry_time > TimeLimit THEN "Time Exit"
    ELSE IF max_profit > TrailMinMaxProfit /\ profit > TrailMinProfit
            /\ profit * 100 < max_profit * TrailingPct(pt, regime)
         THEN "Trailing Stop"
    ELSE "None"

CurrentLtpSwapped(direction, row) ==
    IF direction = 1 THEN row.Call_LTP ELSE row.Put_LTP

(* The leg of a row that check_exit prices the position at: the put for a  *)
(* SHORT_PUT (direction 1), the call otherwise.                            *)
CurrentLtp(direction, row) ==
    IF direction = 1 THEN row.Put_LTP ELSE row.Call_LTP

(* The outcome of a closed trade.                                          *)
OutcomeOfLoss(pnl) == IF pnl < 0 THEN 1 ELSE 0

Outcome(pnl) == IF pnl > 0 THEN 1 ELSE 0

(* PaperTrade.check_exit(current_data, signal, regime) at time clock.      *)
check_exit(pt, current_data, signal, regime, clock) ==
    IF ~pt.active THEN [pt |-> pt, ret |-> NoExit]
    ELSE LET strike_data == StrikeData(current_data, pt.entry_strike)
         IN  IF strike_data = <<>> THEN [pt |-> pt, ret |-> NoExit]
             ELSE
             LET current_ltp == CurrentLtp(pt.direction, strike_data[1])
                 profit      == pt.entry_price - current_ltp
                 max_profit  == Max(pt.max_profit, profit)
                 reason      == ExitReason(pt, current_ltp, profit, max_profit,
                                           signal, regime, clock)
             IN  IF reason = "None"
                 THEN [pt |-> [pt EXCEPT !.max_profit = max_profit], ret |-> NoExit]
                 ELSE [pt |-> reset(pt),
                       ret |-> ExitResult(Outcome(profit), profit, reason, current_ltp)]


----------------------------------------------------------------------------
(* AdvancedMLDecisionEngine                                                *)

(* _initialize_feature_names: the built-in schema.  Its 35 names are       *)
(* abbreviated to the first two.                                           *)
InitialFeatureNames == <<"underlying_price", "atm_strike">>

Range(seq) == {seq[i] : i \in 1..Len(seq)}

Classifiers == {"regime_classifier", "signal_confidence", "pattern_detector",
                "signal_direction"}
Regressors == {"position_sizer", "stop_loss_predictor", "trailing_stop_predictor"}

(* A label set, reduced to its four classification targets (the three      *)
(* regression targets take part in no decision of train_models).           *)
NoLabels == [given |-> FALSE, regime |-> 0, confidence |-> 0, pattern |-> 0,
             signal_direction |-> 0]
Labels(r, c, p, d) == [given |-> TRUE, regime |-> r, confidence |-> c,
                       pattern |-> p, signal_direction |-> d]

Abs(x) == IF x < 0 THEN -x ELSE x

(* generate_training_labels(features, pnl), pnl is not None: pnl in paise. *)
generate_training_labels(pnl) ==
    Labels(IF pnl > 1000 THEN 1 ELSE IF pnl < -1000 THEN -1 ELSE 0,
           IF Abs(pnl) > 2500 THEN 2 ELSE IF Abs(pnl) > 1000 THEN 1 ELSE 0,
           IF pnl > 1000 THEN 3 ELSE IF pnl < -1000 THEN 2 ELSE 0,
           IF pnl > 500 THEN 1 ELSE IF pnl < -500 THEN -1 ELSE 0)

(* A feature map is a dict, given by its keys in insertion order, or       *)
(* something that is no dict (features.copy() raises).                     *)
FeatureMap(keys) == [dict |-> TRUE, keys |-> keys]
NoDict == [dict |-> FALSE, keys |-> <<>>]

NewScaler == [fitted |-> FALSE, n_features_in |-> 0, rows |-> 0]
NewDeepModel(n) == [input_size |-> n, stepped |-> FALSE]
NewOptimizer == [stepped |-> FALSE]

(* AdvancedMLDecisionEngine.__init__ with no persisted store.  store is    *)
(* the file at model_path: empty, or the one record last written to it.    *)
(* names_shared says that feature_names and trained_feature_names are one  *)
(* and the same list object, as they are after unpickling a record that    *)
(* was written with the same list under both keys.                         *)
EngineInit ==
    [feature_names |-> InitialFeatureNames,
     trained_feature_names |-> <<>>,
     names_shared |-> FALSE,
     store |-> <<>>,
     is_trained |-> FALSE,
     scaler |-> NewScaler,
     input_size |-> Len(InitialFeatureNames),
     fitted |-> {},
     training_data |-> <<>>,
     feature_buffer |-> 0,
     sequence_buffer |-> 0,
     deep_model |-> NewDeepModel(Len(InitialFeatureNames)),
     optimizer |-> NewOptimizer]

(* The loop "for name in features.keys(): if name not in feature_names:    *)
(* append": names with the keys not yet in it appended in key order.       *)
PrependName(names, name) == <<name>> \o names

(* self.feature_names.append(name).                                        *)
AppendName(names, name) == Append(names, name)

RECURSIVE ExtendNames(_, _)
ExtendNames(names, keys) ==
    IF keys = <<>> THEN names
    ELSE IF Head(keys) \in Range(names) THEN ExtendNames(names, Tail(keys))
    ELSE ExtendNames(AppendName(names, Head(keys)), Tail(keys))

(* The last n elements of a sequence: seq[-n:].                            *)
LastN(seq, n) == IF Len(seq) <= n THEN seq ELSE SubSeq(seq, Len(seq) - n + 1, Len(seq))

(* The cap on training_data after the append.                              *)
TrimTrainingDataOldest(data) ==
    IF Len(data) > MaxTrainingSamples THEN SubSeq(data, 1, MaxTrainingSamples) ELSE data

TrimTrainingData(data) ==
    IF Len(data) > MaxTrainingSamples THEN LastN(data, MaxTrainingSamples) ELSE data

(* The sample update_training_data stores.                                 *)
Sample(features, labels) == [features |-> features.keys, labels |-> labels]

(* Whether update_training_data constructs a new LSTMSignalPredictor and a *)
(* new Adam optimizer: the statements sit in the else branch of            *)
(* "if not self.feature_names", after and outside "if added".              *)
RebuildsDeepModel(names, added) == names # <<>>

(* update_training_data(features, labels): the engine after it, and        *)
(* whether it replaced the sequence model.                                 *)
update_training_data(e, features, labels) ==
    IF ~features.dict THEN [e |-> e, rebuilt |-> FALSE]
    ELSE
    LET data    == TrimTrainingData(Append(e.training_data, Sample(features, labels)))
        fbuf    == Min(e.feature_buffer + 1, SequenceLength)
        names   == IF e.feature_names = <<>> THEN features.keys
                   ELSE ExtendNames(e.feature_names, features.keys)
        added   == Len(names) - Len(e.feature_names)
        size    == IF e.feature_names = <<>> \/ added > 0 THEN Len(names)
                   ELSE e.input_size
        rebuild == RebuildsDeepModel(e.feature_names, added)
        sbuf    == IF fbuf >= SequenceLength
                   THEN Min(e.sequence_buffer + 1, MaxSequences)
                   ELSE e.sequence_buffer
    IN  [e |-> [e EXCEPT !.training_data = data,
                         !.feature_buffer = fbuf,
                         !.feature_names = names,
                         !.trained_feature_names =
                             IF e.names_shared /\ e.feature_names # <<>> THEN names ELSE @,
                         !.names_shared = @ /\ e.feature_names # <<>>,
                         !.input_size = size,
                         !.deep_model = IF rebuild THEN NewDeepModel(size) ELSE @,
                         !.optimizer = IF rebuild THEN NewOptimizer ELSE @,
                         !.sequence_buffer = sbuf],
         rebuilt |-> rebuild]

(* The labels train_models uses for a sample: the stored ones, or, when    *)
(* there are none, those generated from the features' pnl (0: the feature  *)
(* maps hold no 'pnl').                                                    *)
SampleLabels(sample) ==
    IF sample.labels.given THEN sample.labels ELSE generate_training_labels(0)

(* has_sufficient_diversity for each classification target.                *)
DiversityCheck(data) ==
    LET ls == {SampleLabels(data[i]) : i \in 1..Len(data)}
    IN  [regime           |-> Cardinality({l.regime : l \in ls}) >= 2,
         confidence       |-> Cardinality({l.confidence : l \in ls}) >= 2,
         pattern          |-> Cardinality({l.pattern : l \in ls}) >= 2,
         signal_direction |-> Cardinality({l.signal_direction : l \in ls}) >= 2]

(* The early return of train_models after the diversity check: it returns  *)
(* False when any one target lacks diversity.                              *)
AbortsOnDiversity(dc) ==
    ~(dc.regime /\ dc.confidence /\ dc.pattern /\ dc.signal_direction)

(* The snapshot of the feature order: taken when none is held yet, before  *)
(* the diversity check.                                                    *)
FreezeTrainedNames(e) ==
    IF e.trained_feature_names = <<>> THEN e.feature_names ELSE e.trained_feature_names

(* The width of X_ordered.                                                 *)
OrderedWidth(names, trained) ==
    IF trained = <<>> THEN Len(names)
    ELSE LET reorder == SelectSeq(trained, LAMBDA n : n \in Range(names))
         IN  IF Len(reorder) = Len(names) THEN Len(reorder) ELSE Len(trained)

(* The classical models train_models fits once it is past the diversity    *)
(* check.                                                                  *)
ModelsTrained(dc, rows) ==
    LET cls == {m \in Classifiers :
                   \/ m = "regime_classifier" /\ dc.regime
                   \/ m = "signal_confidence" /\ dc.confidence
                   \/ m = "pattern_detector" /\ dc.pattern
                   \/ m = "signal_direction" /\ dc.signal_direction}
        meta == IF rows >= MetaMinSamples /\ "regime_classifier" \in cls
                   /\ "signal_confidence" \in cls /\ dc.regime
                THEN {"meta_learner"} ELSE {}
    IN  cls \cup Regressors \cup meta

(* save_models() returns False without writing when the fitted models do   *)
(* not all have the width expected: every model is fitted on the matrix    *)
(* the scaler is fitted on, and the width expected is that of              *)
(* trained_feature_names when there are any.                               *)
SaveModelsFails(e) ==
    /\ e.fitted # {}
    /\ e.trained_feature_names # <<>>
    /\ Len(e.trained_feature_names) # e.scaler.n_features_in

(* save_models(): the store it writes.  The sequence model is written for  *)
(* a trained engine only.  'trained_feature_names' is written as           *)
(* self.trained_feature_names or self.feature_names: with no trained names *)
(* it is the list object of feature_names itself.                          *)
save_models(e) ==
    [feature_names |-> e.feature_names,
     trained_feature_names |-> IF e.trained_feature_names # <<>>
                               THEN e.trained_feature_names ELSE e.feature_names,
     names_shared |-> e.trained_feature_names = <<>> \/ e.names_shared,
     is_trained |-> e.is_trained,
     scaler |-> e.scaler,
     input_size |-> e.input_size,
     fitted |-> e.fitted,
     has_deep_model |-> e.is_trained,
     deep_model |-> e.deep_model,
     optimizer |-> e.optimizer]

(* The file after a call of save_models().                                 *)
Saved(e) == IF SaveModelsFails(e) THEN e ELSE [e EXCEPT !.store = <<save_models(e)>>]

(* _train_deep_model, reached when the feature buffer is full.             *)
TrainsDeepModel(e) ==
    e.feature_buffer >= SequenceLength /\ e.sequence_buffer >= MinSequences

(* train_models(): the engine after it, and what it returned.              *)
train_models(e) ==
    IF Len(e.training_data) < MinTrainingSamples THEN [e |-> e, ret |-> FALSE]
    ELSE IF Len(e.feature_names) = 0 THEN [e |-> e, ret |-> FALSE]
    ELSE
    LET e1     == [e EXCEPT !.trained_feature_names = FreezeTrainedNames(e),
                            !.names_shared = @ /\ e.trained_feature_names # <<>>]
        dc     == DiversityCheck(e.training_data)
        rows   == Len(e.training_data)
        width  == OrderedWidth(e1.feature_names, e1.trained_feature_names)
        models == ModelsTrained(dc, rows)
        deep   == TrainsDeepModel(e1)
    IN  IF AbortsOnDiversity(dc) THEN [e |-> e1, ret |-> FALSE]
        ELSE [e |-> Saved([e1 EXCEPT
                       !.scaler = [fitted |-> TRUE, n_features_in |-> width,
                                   rows |-> rows],
                       !.fitted = @ \cup models,
                       !.deep_model = IF deep THEN [@ EXCEPT !.stepped = TRUE] ELSE @,
                       !.optimizer = IF deep THEN [stepped |-> TRUE] ELSE @,
                       !.is_trained = TRUE]),
              ret |-> TRUE]

PredictReturnsNoneWithoutSchema(e) == e.feature_names = <<>>

(* The guard of predict(): None when the engine is not trained or has no   *)
(* schema.                                                                 *)
PredictReturnsNone(e) == ~e.is_trained \/ e.feature_names = <<>>

(* load_models() at the end of __init__, with a store on disk.             *)
load_models(e, store) ==
    [e EXCEPT !.feature_names = store.feature_names,
              !.trained_feature_names = store.trained_feature_names,
              !.names_shared = store.names_shared,
              !.is_trained = store.is_trained,
              !.scaler = store.scaler,
              !.input_size = store.input_size,
              !.fitted = store.fitted,
              !.deep_model = IF store.has_deep_model THEN store.deep_model ELSE @,
              !.optimizer = IF store.has_deep_model THEN store.optimizer ELSE @]

(* __init__ with the store on disk: load_models() is its last statement.   *)
EngineWithStore(store) == load_models([EngineInit EXCEPT !.store = <<store>>], store)

----------------------------------------------------------------------------
(* OptimizedATMAnalyzer: the heuristic, the analysis of                    *)
(* one snapshot, the learning update and the two trading loops.  Signal    *)
(* strengths are in hundredths, confidences in hundredths.                  *)

UpdateEvery == 5               \* training_counter % 5 == 0
TrainEvery == 25               \* training_counter % 25 == 0
RetrainAfter == 50             \* training_counter >= 50
OfflineUpdateEvery == 10       \* processed_samples % 10 == 0
OfflineTrainEvery == 50        \* processed_samples % 50 == 0
ContinuousEvery == 10          \* training_counter % 10 == 0 in run_analysis
SIGNAL_STRENGTH_THRESHOLD == 200   \* Config.SIGNAL_STRENGTH_THRESHOLD = 2
VolumeScale == 10000           \* scaling_factors['atm_call_volume']

MaxTrainingCounter == 5        \* analyses are counted up to this many
MaxLoopCounter == 3            \* and up to this many in the trading loops
MaxOfflineSamples == 1         \* stored samples processed in one simulation
MaxCycles == 5                 \* calls of analyze_regime_with_ml on its own
RecentTrades == 2              \* portfolio_performance[-10:]
SignalHistoryLen == 3          \* signal_history = deque(maxlen=5)
StabilityWindow == 3           \* len(signal_history) < 3, signal_history[-3:]
StabilityVotes == 2            \* recent_matches >= 2

(* The columns of the ATM row other than the prices, the changes against   *)
(* the previous minute, and the session of the day.                        *)
AtmColumns(call_oi, put_oi, call_volume, put_volume) ==
    [Call_OI |-> call_oi, Put_OI |-> put_oi,
     Call_Volume |-> call_volume, Put_Volume |-> put_volume]
Changes(call_oi, put_oi, call_volume, put_volume) ==
    [call_oi_change |-> call_oi, put_oi_change |-> put_oi,
     call_volume_change |-> call_volume, put_volume_change |-> put_volume]
Sessions == {"opening", "mid_session", "closing", "other"}

(* The session flags extract_features sets from the wall clock: is_opening *)
(* (hour 9 before 9:30), is_closing (hour >= 15), is_mid_session (hours 10 *)
(* to 14); no two of them hold at once.                                    *)
SessionAt(hour, minute) ==
    IF hour = 9 /\ minute < 30 THEN "opening"
    ELSE IF hour >= 15 THEN "closing"
    ELSE IF 10 <= hour /\ hour <= 14 THEN "mid_session"
    ELSE "other"

(* One fetch of the market: the table of the strikes around the ATM        *)
(* strike (get_nearest_strikes) and the ATM strike, whose row is in it.    *)
Market(current_data, atm_strike, atm, changes, session) ==
    [current_data |-> current_data, atm_strike |-> atm_strike, atm |-> atm,
     changes |-> changes, session |-> session]

NoFeatures ==
    [none |-> TRUE, keys |-> <<>>, atm |-> AtmColumns(0, 0, 0, 0),
     changes |-> Changes(0, 0, 0, 0), call_ltp |-> 0, put_ltp |-> 0,
     session |-> "other"]

(* extract_features: None when the ATM row is missing; else the computed   *)
(* features, with every name of feature_names present.                     *)
extract_features(e, m) ==
    LET atm_data == StrikeData(m.current_data, m.atm_strike)
    IN  IF atm_data = <<>> THEN NoFeatures
        ELSE [none |-> FALSE,
              keys |-> ExtendNames(InitialFeatureNames, e.feature_names),
              atm |-> m.atm, changes |-> m.changes,
              call_ltp |-> atm_data[1].Call_LTP, put_ltp |-> atm_data[1].Put_LTP,
              session |-> m.session]

Heuristic(signal, strength) == [signal |-> signal, strength |-> strength]

(* traditional_analysis on the features: the signal and the strength (a    *)
(* whole number here), one operator for each numbered step.  The volumes   *)
(* are compared after their scaling by VolumeScale; pcr_oi is              *)
(* Put_OI / max(Call_OI, 1) and call_put_ltp_ratio is                      *)
(* Call_LTP / max(Put_LTP, 0.01).                                          *)
Strengthen(h, condition) ==
    IF condition THEN Heuristic(h.signal, h.strength + 1) ELSE h

VolumeSignal(f) ==
    IF f.atm.Call_Volume * 10 > f.atm.Put_Volume * 15
       /\ f.atm.Call_Volume > 100 * VolumeScale THEN Heuristic(1, 2)
    ELSE IF f.atm.Put_Volume * 10 > f.atm.Call_Volume * 15
            /\ f.atm.Put_Volume > 100 * VolumeScale THEN Heuristic(-1, 2)
    ELSE Heuristic(0, 0)

OiSignal(f, h) ==
    IF f.atm.Call_OI * 10 > f.atm.Put_OI * 12
    THEN (IF h.signal >= 0 THEN Heuristic(1, h.strength + 1) ELSE h)
    ELSE IF f.atm.Put_OI * 10 > f.atm.Call_OI * 12
    THEN (IF h.signal <= 0 THEN Heuristic(-1, h.strength + 1) ELSE h)
    ELSE h

OiChange(f, h) ==
    IF f.changes.call_oi_change > 0
       /\ f.changes.call_oi_change > Abs(f.changes.put_oi_change)
    THEN Strengthen(h, h.signal >= 0)
    ELSE IF f.changes.put_oi_change > 0
            /\ f.changes.put_oi_change > Abs(f.changes.call_oi_change)
    THEN Strengthen(h, h.signal <= 0)
    ELSE h

PcrConfirmation(f, h) ==
    IF f.atm.Put_OI * 10 > 15 * Max(f.atm.Call_OI, 1) THEN Strengthen(h, h.signal = 1)
    ELSE IF f.atm.Put_OI * 10 < 7 * Max(f.atm.Call_OI, 1) THEN Strengthen(h, h.signal = -1)
    ELSE h

VolumeTrend(f, h) ==
    IF f.changes.call_volume_change > 100
       /\ f.changes.call_volume_change > Abs(f.changes.put_volume_change)
    THEN Strengthen(h, h.signal >= 0)
    ELSE IF f.changes.put_volume_change > 100
            /\ f.changes.put_volume_change > Abs(f.changes.call_volume_change)
    THEN Strengthen(h, h.signal <= 0)
    ELSE h

TimeAdjustment(f, h) ==
    IF f.session = "opening" THEN Heuristic(h.signal, Max(0, h.strength - 1))
    ELSE IF f.session = "mid_session" THEN Strengthen(h, h.strength > 0)
    ELSE IF f.session = "closing" THEN Heuristic(h.signal, Max(0, h.strength - 1))
    ELSE h

PriceRatio(f, h) ==
    IF f.call_ltp * 10 > 13 * Max(f.put_ltp, 1) /\ h.signal = 1
    THEN Heuristic(h.signal, h.strength + 1)
    ELSE IF f.call_ltp * 10 < 7 * Max(f.put_ltp, 1) /\ h.signal = -1
    THEN Heuristic(h.signal, h.strength + 1)
    ELSE h

FinalValidation(h) ==
    IF h.strength < 2 THEN Heuristic(0, 0) ELSE Heuristic(h.signal, Min(10, h.strength))

traditional_analysis(f) ==
    IF f.none THEN Heuristic(0, 0)
    ELSE FinalValidation(PriceRatio(f, TimeAdjustment(f, VolumeTrend(f,
             PcrConfirmation(f, OiChange(f, OiSignal(f, VolumeSignal(f))))))))

(* What predict() returns when it returns a record.                        *)
MlPrediction(regime, confidence, pattern, position_size, stop_loss_pct, trailing_stop_pct) ==
    [given |-> TRUE, regime |-> regime, confidence |-> confidence,
     pattern |-> pattern, position_size |-> position_size,
     stop_loss_pct |-> stop_loss_pct, trailing_stop_pct |-> trailing_stop_pct]
NoMlPrediction == [given |-> FALSE, regime |-> 0, confidence |-> 0, pattern |-> 0,
                   position_size |-> 0, stop_loss_pct |-> 0, trailing_stop_pct |-> 0]

(* predict(features): None for an engine that is not trained or has no     *)
(* schema; else what the fitted models give (model_output), which is None  *)
(* when predicting raised.                                                 *)
predict(e, model_output) ==
    IF PredictReturnsNone(e) \/ ~model_output.given THEN NoMlPrediction
    ELSE [model_output EXCEPT !.position_size = Clamp(10, 100, @),
                              !.stop_loss_pct = Clamp(5, 20, @),
                              !.trailing_stop_pct = Clamp(30, 80, @)]

(* The record analyze_regime_with_ml leaves in current_ml_prediction on    *)
(* the heuristic path, and the one of the trained path, as enter() reads   *)
(* them.                                                                   *)
TraditionalPrediction(traditional_strength) ==
    Prediction(PyFloat(Max(100, 20 * traditional_strength)), PyFloat(10),
               PyFloat(50), PyFloat(60))
EntryPrediction(p) ==
    Prediction(PyFloat(p.position_size), PyFloat(p.stop_loss_pct),
               PyFloat(p.trailing_stop_pct), PyFloat(p.confidence))

(* The counting at the end of an analysis: every UpdateEvery-th analysis   *)
(* stores its features, every TrainEvery-th one also trains.               *)
CountAnalysis(an, e, f) ==
    LET c  == an.training_counter + 1
        e1 == IF c % UpdateEvery = 0
              THEN update_training_data(e, FeatureMap(f.keys), NoLabels).e ELSE e
        e2 == IF c % UpdateEvery = 0 /\ c % TrainEvery = 0
              THEN train_models(e1).e ELSE e1
    IN  [an |-> [an EXCEPT !.training_counter = c], e |-> e2,
         updated |-> c % UpdateEvery = 0,
         trained |-> c % UpdateEvery = 0 /\ c % TrainEvery = 0]

ConfidenceThresholdBase(portfolio_performance) == 40

(* The dynamic confidence threshold, from the last RecentTrades closed     *)
(* trades (TRUE for a trade with pnl > 0).                                 *)
ConfidenceThreshold(portfolio_performance) ==
    LET n    == Len(portfolio_performance)
        wins == Cardinality({i \in 1..n : portfolio_performance[i]})
    IN  IF n < RecentTrades THEN 40
        ELSE IF wins * 10 > 7 * n THEN 45
        ELSE IF wins * 10 < 4 * n THEN 55
        ELSE 50

(* self.signal_history[-3:]: signal_history is a collections.deque, and a  *)
(* deque subscripted with a slice raises TypeError.                        *)
DequeSlice(history, n) == [raised |-> TRUE, value |-> <<>>]

(* check_signal_stability(new_signal): the history after it (the deque     *)
(* keeps its last SignalHistoryLen entries) and the signal it returns.     *)
(* The except clause returns new_signal.                                   *)
check_signal_stability(signal_history, new_signal) ==
    LET history == LastN(Append(signal_history, new_signal), SignalHistoryLen)
        recent  == DequeSlice(history, StabilityWindow)
        recent_matches ==
            Cardinality({i \in 1..Len(recent.value) : recent.value[i] = new_signal})
    IN  [signal_history |-> history,
         ret |-> IF Len(history) < StabilityWindow THEN new_signal
                 ELSE IF new_signal = history[Len(history) - 1] THEN new_signal
                 ELSE IF recent.raised THEN new_signal
                 ELSE IF recent_matches >= StabilityVotes THEN new_signal
                 ELSE 0]

(* What analyze_regime_with_ml returns and leaves behind.                  *)
(* What the trained path decided on: the model's signal, the enhanced      *)
(* confidence, the threshold and the branch of the combination taken.      *)
NoDecision == [ml_regime |-> 0, ml_signal |-> 0, enhanced |-> 0, threshold |-> 0, band |-> "none",
               final_signal |-> 0, rejected |-> FALSE]

Analysis(an, e, signal, strength, position_size, regime, prediction, predicted) ==
    [an |-> an, e |-> e, signal |-> signal, strength |-> strength,
     position_size |-> position_size, regime |-> regime,
     current_ml_prediction |-> prediction, predicted |-> predicted,
     extracted |-> TRUE, updated |-> FALSE, trained |-> FALSE,
     decision |-> NoDecision, stability_checked |-> FALSE]

(* Whether the analysis takes the heuristic path.                          *)
UsesTraditional(ml_prediction, e) == ~ml_prediction.given \/ ~e.is_trained

CombineSignalsLowOverride(enhanced, ml_signal, traditional_signal) ==
    IF enhanced >= 80 THEN "very_high"
    ELSE IF enhanced >= 70 THEN
         (IF ml_signal = traditional_signal THEN "high"
          ELSE IF enhanced >= 72 THEN "override"
          ELSE "disagree")
    ELSE "unbound"

CombineSignalsAlwaysBound(enhanced, ml_signal, traditional_signal) ==
    IF enhanced >= 80 THEN "very_high"
    ELSE IF enhanced >= 70 THEN
         (IF ml_signal = traditional_signal THEN "high"
          ELSE IF enhanced >= 75 THEN "override"
          ELSE "disagree")
    ELSE "override"

(* The combination of the model's signal with the heuristic's, by the      *)
(* enhanced confidence (in hundredths): the branch taken.  In "very_high", *)
(* "high" and "override" final_signal is the model's signal; "disagree"    *)
(* returns neutral; in "unbound" no branch assigns final_signal.           *)
CombineSignals(enhanced, ml_signal, traditional_signal) ==
    IF enhanced >= 80 THEN "very_high"
    ELSE IF enhanced >= 70 THEN
         (IF ml_signal = traditional_signal THEN "high"
          ELSE IF enhanced >= 75 THEN "override"
          ELSE "disagree")
    ELSE "unbound"

(* The trained path of analyze_regime_with_ml, for the prediction p.  x    *)
(* holds what the collaborators give in this cycle: the confidence boost   *)
(* of the comparative analysis, the portfolio risk check, the entry timing *)
(* for a strength of 5 or more, the lots and the regime.                   *)
AnalyzeTrained(an, e, f, trad, p, x) ==
    LET ml_signal == IF p.regime = 1 THEN 1 ELSE IF p.regime = 2 THEN -1 ELSE 0
        enhanced  == Min(p.confidence + Clamp(-5, 25, x.boost), 95)
        threshold == ConfidenceThreshold(an.portfolio_performance)
        pred      == EntryPrediction(p)
        band      == CombineSignals(enhanced, ml_signal, trad.signal)
        decision  == [ml_regime |-> p.regime,
                      ml_signal |-> ml_signal, enhanced |-> enhanced,
                      threshold |-> threshold,
                      band |-> IF enhanced < threshold THEN "low" ELSE band,
                      final_signal |-> IF enhanced >= threshold
                                          /\ band \in {"very_high", "high", "override"}
                                       THEN ml_signal ELSE 0,
                      rejected |-> enhanced < threshold \/ band = "disagree"]
        neutral(regime) == [Analysis(an, e, 0, 0, 0, regime, pred, TRUE)
                               EXCEPT !.decision = decision]
        base      == CASE band = "very_high" -> 100 * trad.strength + 10 * enhanced + 200
                       [] band = "high"      -> 100 * trad.strength + 10 * enhanced + 100
                       [] OTHER              -> 10 * enhanced
        strength  == IF p.pattern \in {1, 2, 3} THEN base + 100 ELSE base
        should_enter == strength >= 500 /\ x.timing_ok
        counted   == CountAnalysis(an, e, f)
        stable    == check_signal_stability(an.signal_history, ml_signal)
    IN  IF enhanced < threshold THEN neutral(x.regime)
        ELSE IF band = "disagree" THEN neutral(x.regime)
        ELSE IF band = "unbound" THEN neutral("unknown")
        ELSE IF ~x.risk_ok THEN neutral(x.regime)
        ELSE IF ~should_enter /\ ml_signal # 0 THEN neutral(x.regime)
        ELSE [Analysis([counted.an EXCEPT !.signal_history = stable.signal_history],
                       counted.e, stable.ret, strength, x.lots, x.regime, pred, TRUE)
                 EXCEPT !.updated = counted.updated, !.trained = counted.trained,
                        !.decision = decision, !.stability_checked = TRUE]

(* analyze_regime_with_ml(current_data, underlying_value, atm_strike).     *)
analyze_regime_with_ml(an, e, m, x) ==
    LET f    == extract_features(e, m)
        p    == predict(e, x.model_output)
        trad == traditional_analysis(f)
        counted == CountAnalysis(an, e, f)
    IN  IF f.none
        THEN [Analysis(an, e, 0, 0, 0, "unknown", NoPrediction, FALSE)
                 EXCEPT !.extracted = FALSE]
        ELSE IF UsesTraditional(p, e)
        THEN [Analysis(counted.an, counted.e, trad.signal, 100 * trad.strength,
                       x.lots, x.regime, TraditionalPrediction(trad.strength), p.given)
                 EXCEPT !.updated = counted.updated, !.trained = counted.trained]
        ELSE AnalyzeTrained(an, e, f, trad, p, x)

(* update_signal_with_learning(outcome, pnl, ...): nothing at all without  *)
(* features; else the sample labelled from the pnl is stored and the       *)
(* counter advanced, with a training and a reset at RetrainAfter.          *)
update_signal_with_learning(an, e, m, pnl) ==
    LET f  == extract_features(e, m)
        e1 == update_training_data(e, FeatureMap(f.keys), generate_training_labels(pnl)).e
        c  == an.training_counter + 1
    IN  IF f.none THEN [an |-> an, e |-> e, learned |-> FALSE]
        ELSE IF c >= RetrainAfter
        THEN [an |-> [an EXCEPT !.training_counter = 0], e |-> train_models(e1).e,
              learned |-> TRUE]
        ELSE [an |-> [an EXCEPT !.training_counter = c], e |-> e1, learned |-> TRUE]

(* portfolio_performance.append: the last RecentTrades entries are kept.   *)
RecordTrade(an, pnl) ==
    [an EXCEPT !.portfolio_performance = LastN(Append(@, pnl > 0), RecentTrades)]

(* One entry block of the loops: enter() is called for a non-neutral       *)
(* signal of sufficient strength when no position is active and the leg    *)
(* has a price.  With the new state: whether enter() was called, whether   *)
(* it returned True, and whether a position was active when it was called. *)
EntryBlockUnguarded(pt, m, a, clock) ==
    LET atm_row     == StrikeData(m.current_data, m.atm_strike)[1]
        current_ltp == CurrentLtp(a.signal, atm_row)
        r           == enter(pt, PyInt(a.signal), PyFloat(current_ltp),
                             PyFloat(m.atm_strike), a.position_size, a.regime,
                             a.current_ml_prediction, clock)
    IN  IF a.signal = 0 \/ a.strength < SIGNAL_STRENGTH_THRESHOLD \/ current_ltp <= 0
        THEN [pt |-> pt, called |-> FALSE, opened |-> FALSE, while_open |-> FALSE]
        ELSE [pt |-> r.pt, called |-> TRUE, opened |-> r.ret, while_open |-> pt.active]

EntryBlock(pt, m, a, clock) ==
    LET atm_row     == StrikeData(m.current_data, m.atm_strike)[1]
        current_ltp == CurrentLtp(a.signal, atm_row)
        r           == enter(pt, PyInt(a.signal), PyFloat(current_ltp),
                             PyFloat(m.atm_strike), a.position_size, a.regime,
                             a.current_ml_prediction, clock)
    IN  IF pt.active \/ a.signal = 0 \/ a.strength < SIGNAL_STRENGTH_THRESHOLD
           \/ current_ltp <= 0
        THEN [pt |-> pt, called |-> FALSE, opened |-> FALSE, while_open |-> FALSE]
        ELSE [pt |-> r.pt, called |-> TRUE, opened |-> r.ret, while_open |-> pt.active]

(* The keys of a sample of get_training_data_from_market_buffer, its 20    *)
(* names abbreviated to two: one that the built-in schema lacks and one    *)
(* that it has.                                                            *)
MarketFeatureKeys == <<"underlying_value", "atm_strike">>

(* The loop of the continuous learning block: update_training_data for     *)
(* each sample, labelled from its price change (price_change * 1000, here  *)
(* in hundredths).                                                         *)
RECURSIVE UpdateFromMarketSamples(_, _)
UpdateFromMarketSamples(e, price_changes) ==
    IF price_changes = <<>> THEN e
    ELSE UpdateFromMarketSamples(
             update_training_data(e, FeatureMap(MarketFeatureKeys),
                                  generate_training_labels(Head(price_changes))).e,
             Tail(price_changes))

(* Whether the continuous learning block at the end of a cycle of          *)
(* run_analysis trains from the market buffer.                             *)
LearnsFromMarket(pt, an) ==
    /\ an.training_counter % ContinuousEvery = 0
    /\ get_training_data_from_market_buffer(pt) >= MarketSamples

(* The continuous learning block: the last MarketSamples samples are       *)
(* stored and the models trained.                                          *)
ContinuousLearning(pt, an, e, price_changes) ==
    IF LearnsFromMarket(pt, an)
    THEN train_models(UpdateFromMarketSamples(e, price_changes)).e
    ELSE e

----------------------------------------------------------------------------
(* The inputs of the PaperTrade actions.                                   *)

Strikes == {24000, 24050}
LTPs == {3000, 7000, 8700, 9000, 9900, 11500}
Signals == {-1, 0, 1}

Predictions ==
    { NoPrediction,
      Prediction(PyFloat(50), PyFloat(10), PyFloat(50), PyFloat(75)),
      Prediction(PyFloat(25), PyFloat(2), PyFloat(10), PyFloat(90)),
      Prediction(PyFloat(35), PyFloat(30), PyFloat(90), PyFloat(50)),
      Prediction(NoNumber, NoNumber, PyFloat(50), PyFloat(75)),
      Prediction(PyFloat(50), PyFloat(10), NoNumber, PyFloat(75)),
      Prediction(PyFloat(50), PyFloat(10), PyFloat(50), NoNumber) }

EnterArgs(direction, ltp, strike, size, regime, p) ==
    [direction |-> direction, ltp |-> ltp, strike |-> strike,
     position_size |-> size, regime |-> regime, ml_predictions |-> p]

EntrySizes == {0, 2}

(* The calls of enter(): the well-formed ones, and one for each way an     *)
(* argument can be ill-formed.                                             *)
EnterCalls ==
    { EnterArgs(PyInt(d), PyFloat(10000), PyFloat(24000), size, regime, p) :
        d \in {-1, 1}, size \in EntrySizes, regime \in Regimes, p \in Predictions }
    \cup { EnterArgs(d, PyFloat(10000), PyFloat(24000), 1, "unknown", NoPrediction) :
              d \in {PyInt(0), PyInt(2), PyFloat(1), NoNumber} }
    \cup { EnterArgs(PyInt(1), l, PyFloat(24000), 1, "unknown", NoPrediction) :
              l \in {PyInt(0), PyFloat(-500), NoNumber} }
    \cup { EnterArgs(PyInt(1), PyFloat(10000), NoNumber, 1, "unknown", NoPrediction) }
    \cup { EnterArgs(PyInt(1), PyInt(5000), PyFloat(24000), 1, "sideways_low_vol",
                     NoPrediction) }

Row(strike, call, put) == [Strike |-> strike, Call_LTP |-> call, Put_LTP |-> put]

(* The call price that goes with a put price in the rows below: another    *)
(* one of the prices, so that the two legs of a row always differ.         *)
OtherLeg(put) ==
    CASE put = 3000 -> 11500 [] put = 7000 -> 3000 [] put = 9000 -> 7000
      [] put = 9900 -> 9000 [] OTHER -> 9900

(* The snapshots: empty, one row of the entry strike, a table without the  *)
(* entry strike, the entry strike in the second row, and two rows of the   *)
(* entry strike (the first one is read).                                   *)
Snapshots ==
    {<<>>, <<Row(24050, 3000, 11500)>>}
    \cup { <<Row(24000, OtherLeg(p), p)>> : p \in LTPs }
    \cup { <<Row(24050, 7000, 7000), Row(24000, OtherLeg(p), p)>> : p \in {3000, 9900} }
    \cup { <<Row(24000, OtherLeg(p), p), Row(24000, 9900, 9900)>> : p \in {3000, 11500} }

----------------------------------------------------------------------------
(* AdvancedRiskManager.calculate_position_size.  Money is in rupees here,  *)
(* the volatility, the confidence and the signal strength in tenths.  The  *)
(* amounts are exact fractions n / d with d > 0, in lowest terms.          *)

RECURSIVE Gcd(_, _)
Gcd(a, b) == IF b = 0 THEN a ELSE Gcd(b, a % b)

Frac(n, d) ==
    LET g == Gcd(Abs(n), Abs(d))
        s == IF d < 0 THEN -1 ELSE 1
    IN  [n |-> (s * n) \div g, d |-> (s * d) \div g]

FracMul(a, b) == Frac(a.n * b.n, a.d * b.d)
FracLess(a, b) == a.n * b.d < b.n * a.d

(* A numpy scalar, as np.mean and the volatility estimate return it.       *)
NumpyFloat(v) == [t |-> "float64", v |-> v]

MinKellyTrades == 10       \* len(self.trade_history) < 10: conservative sizing
LotSize == 75              \* Config.LOT_SIZE
AvgOptionPrice == 100      \* avg_option_price
AccountPerLot == 50000     \* account_value // 50000

Winners(trade_history) == {i \in 1..Len(trade_history) : trade_history[i] > 0}
Losers(trade_history) == {i \in 1..Len(trade_history) : trade_history[i] < 0}

RECURSIVE SumAbsPnl(_, _)
SumAbsPnl(trade_history, trades) ==
    IF trades = {} THEN 0
    ELSE LET i == CHOOSE t \in trades : TRUE
         IN  Abs(trade_history[i]) + SumAbsPnl(trade_history, trades \ {i})

(* get_average_win / get_average_loss: the mean, 0 of no such trade.       *)
get_average_win(trade_history) ==
    IF Winners(trade_history) = {} THEN Frac(0, 1)
    ELSE Frac(SumAbsPnl(trade_history, Winners(trade_history)),
              Cardinality(Winners(trade_history)))

get_average_loss(trade_history) ==
    IF Losers(trade_history) = {} THEN Frac(0, 1)
    ELSE Frac(SumAbsPnl(trade_history, Losers(trade_history)),
              Cardinality(Losers(trade_history)))

get_historical_win_rate(trade_history) ==
    IF Len(trade_history) < 5 THEN Frac(1, 2)
    ELSE Frac(Cardinality(Winners(trade_history)), Len(trade_history))

(* The Kelly fraction (win_rate * avg_win - (1 - win_rate) * avg_loss) /   *)
(* avg_win, clipped by np.clip to [0, 0.25].  It is                        *)
(* win_rate - (1 - win_rate) * avg_loss / avg_win; with no winning trade   *)
(* avg_win is 0, the numpy division gives -inf, and the clip gives 0.      *)
KellyFraction(trade_history) ==
    LET win_rate == get_historical_win_rate(trade_history)
        avg_win  == get_average_win(trade_history)
        avg_loss == get_average_loss(trade_history)
        lose     == FracMul(Frac(win_rate.d - win_rate.n, win_rate.d),
                            Frac(avg_loss.n * avg_win.d, avg_loss.d * avg_win.n))
        kelly    == Frac(win_rate.n * lose.d - lose.n * win_rate.d,
                         win_rate.d * lose.d)
    IN  IF avg_win.n = 0 THEN Frac(0, 1)
        ELSE IF kelly.n < 0 THEN Frac(0, 1)
        ELSE IF FracLess(Frac(1, 4), kelly) THEN Frac(1, 4)
        ELSE kelly

(* max(1, round(total_contracts / Config.LOT_SIZE)) of an amount of money. *)
LotsOfMoneyUnfloored(position_size_money) ==
    LET d == position_size_money.d * AvgOptionPrice * LotSize
    IN  IF position_size_money.n >= 0
        THEN RoundHalfEven(position_size_money.n, d)
        ELSE -RoundHalfEven(-position_size_money.n, d)

LotsOfMoney(position_size_money) ==
    LET d == position_size_money.d * AvgOptionPrice * LotSize
    IN  Max(1, IF position_size_money.n >= 0
               THEN RoundHalfEven(position_size_money.n, d)
               ELSE -RoundHalfEven(-position_size_money.n, d))

(* calculate_position_size: the lots returned, and whether the body raised *)
(* and the handler returned the fallback.  1 + volatility * 2 is 0 at a    *)
(* volatility of -0.5: a Python float raises ZeroDivisionError there; a    *)
(* numpy scalar gives inf, and the product is then inf, -inf or, of a zero *)
(* factor, nan, which round() refuses with ValueError.                     *)
calculate_position_size(trade_history, account_value, volatility, confidence, signal_strength) ==
    LET base_fraction == IF get_average_loss(trade_history).n = 0
                            \/ Len(trade_history) < MinKellyTrades
                         THEN Frac(1, 100)
                         ELSE KellyFraction(trade_history)
        base_size == FracMul(Frac(account_value, 1), base_fraction)
        denominator == 10 + volatility.v * 2
        confidence_adjustment == IF confidence < 30 THEN Frac(confidence, 30)
                                 ELSE Frac(1, 1)
        strength_adjustment == IF signal_strength < 100 THEN Frac(signal_strength, 100)
                               ELSE Frac(1, 1)
        adjusted == FracMul(FracMul(base_size, confidence_adjustment),
                            strength_adjustment)
        max_position == Frac(account_value * 2, 100)
        min_position == Frac(account_value * 5, 1000)
        AtLeastMin(money) == IF FracLess(money, min_position) THEN min_position
                             ELSE money
        Limited(money) == AtLeastMin(IF FracLess(max_position, money)
                                     THEN max_position ELSE money)
        max_lots == Max(1, account_value \div AccountPerLot)
        Lots(money) == Min(LotsOfMoney(money), max_lots)
    IN  IF denominator # 0
        THEN [ret |-> Lots(Limited(FracMul(adjusted, Frac(10, denominator)))),
              raised |-> FALSE]
        ELSE IF volatility.t # "float64" THEN [ret |-> 1, raised |-> TRUE]
        ELSE IF adjusted.n = 0 THEN [ret |-> 1, raised |-> TRUE]
        ELSE IF adjusted.n > 0 THEN [ret |-> Lots(AtLeastMin(max_position)),
                                     raised |-> FALSE]
        ELSE [ret |-> Lots(min_position), raised |-> FALSE]

NoSizing == [trade_history |-> <<>>, account_value |-> 0, volatility |-> PyFloat(0),
             confidence |-> 0, signal_strength |-> 0, ret |-> 0, raised |-> FALSE]

----------------------------------------------------------------------------
(* MarketRegimeDetector.  price_history holds the prices, regime_history   *)
(* the regimes of the snapshots stored.  The cycle of the analyzer takes   *)
(* the regime it acts on from its collaborators; the detector's own state  *)
(* is followed under the calls of detect_regime alone.                     *)

MaxPriceHistory == 2       \* len(self.price_history) > 100
MinPricePoints == 2        \* len(self.price_history) < 2: the defaults
MaxRegimeHistory == 3      \* a length regime_history is supposed to stay within

RegimeDetectorInit == [regime_history |-> <<>>, price_history |-> <<>>]

(* What the estimates of detect_regime give on a price history: the band   *)
(* of the volatility and whether abs(trend_strength) > 0.6.  With fewer    *)
(* than two prices the volatility is 0.2 and the trend strength 0.         *)
Estimate(volatility, trending) == [volatility |-> volatility, trending |-> trending]
DefaultEstimate == Estimate("medium", FALSE)

RegimeName(estimate) ==
    (IF estimate.trending THEN "trending_" ELSE "sideways_")
        \o estimate.volatility \o "_vol"

(* The cap on price_history after the append.                              *)
TrimPriceHistoryOldest(history) ==
    IF Len(history) > MaxPriceHistory THEN SubSeq(history, 1, MaxPriceHistory) ELSE history

TrimPriceHistory(history) ==
    IF Len(history) > MaxPriceHistory THEN LastN(history, MaxPriceHistory) ELSE history

(* detect_regime(data, underlying_value): the detector after it and the    *)
(* regime returned.  underlying_value is a price, or 0 for None.           *)
detect_regime(rd, underlying_value, estimate) ==
    LET prices == IF underlying_value # 0
                  THEN TrimPriceHistory(Append(rd.price_history, underlying_value))
                  ELSE rd.price_history
        regime == RegimeName(IF Len(prices) < MinPricePoints THEN DefaultEstimate
                             ELSE estimate)
    IN  [rd |-> [price_history |-> prices,
                 regime_history |-> Append(rd.regime_history, regime)],
         regime |-> regime]

(* The record of the last call: what it returned and, for a check_exit of  *)
(* an open position, the arguments it was decided on; entry is how the     *)
(* open position was entered ("traditional": without a prediction record,  *)
(* "predicted": with one, "failed": by a call that returned False).        *)
NoCall == [op |-> "none", ok |-> FALSE, exit |-> NoExit, row |-> Row(0, 0, 0),
           signal |-> 0, regime |-> "unknown", rebuilt |-> FALSE,
           strength |-> 0, heuristic |-> Heuristic(0, 0), predicted |-> FALSE,
           learned |-> FALSE, cycles |-> 0, extracted |-> FALSE, updated |-> FALSE,
           trained |-> FALSE, decision |-> NoDecision, stability_checked |-> FALSE,
           entry |-> "none", closed |-> "none", enters |-> <<>>, while_open |-> FALSE,
           features |-> NoFeatures, hour |-> 0, minute |-> 0,
           sizing |-> NoSizing, price |-> 0, stored |-> FALSE, evicted |-> 0,
           sample |-> Sample(NoDict, NoLabels), position_size |-> 0]

----------------------------------------------------------------------------
(* The actions of the position lifecycle.                                  *)

Enter ==
    \E c \in EnterCalls :
        LET r == enter(paper_trade, c.direction, c.ltp, c.strike, c.position_size,
                       c.regime, c.ml_predictions, now)
        IN  /\ paper_trade' = r.pt
            /\ last' = [NoCall EXCEPT
                          !.op = "enter", !.ok = r.ret,
                          !.entry = IF r.ret THEN (IF c.ml_predictions.given
                                                   THEN "predicted" ELSE "traditional")
                                    ELSE IF r.pt # paper_trade THEN "failed"
                                    ELSE last.entry]
            /\ UNCHANGED <<now, ml_engine, analyzer, regime_detector>>

CheckExit ==
    \E current_data \in Snapshots, signal \in Signals, regime \in Regimes :
        LET r  == check_exit(paper_trade, current_data, signal, regime, now)
        IN  /\ paper_trade' = r.pt
            /\ last' = IF paper_trade.active
                          /\ StrikeData(current_data, paper_trade.entry_strike) # <<>>
                       THEN [NoCall EXCEPT
                               !.op = "check_exit", !.exit = r.ret,
                               !.row = StrikeData(current_data, paper_trade.entry_strike)[1],
                               !.signal = signal, !.regime = regime,
                               !.entry = IF r.ret.exited THEN "none" ELSE last.entry,
                               !.closed = IF r.ret.exited THEN last.entry ELSE "none"]
                       ELSE [NoCall EXCEPT !.op = "check_exit", !.entry = last.entry]
            /\ UNCHANGED <<now, ml_engine, analyzer, regime_detector>>

Tick ==
    /\ now < MaxTicks * TickSeconds
    /\ now' = now + TickSeconds
    /\ UNCHANGED <<paper_trade, ml_engine, analyzer, last, regime_detector>>

----------------------------------------------------------------------------
(* The actions of the engine.                                              *)

FeatureMaps ==
    { FeatureMap(<<"underlying_price", "atm_strike">>),
      FeatureMap(<<"vix">>),
      FeatureMap(<<"rsi", "vix", "underlying_price">>),
      NoDict }

LabelSets == { NoLabels, generate_training_labels(3000), Labels(0, 1, 1, 1) }

UpdateTrainingData ==
    \E features \in FeatureMaps, labels \in LabelSets :
        LET r == update_training_data(ml_engine, features, labels)
        IN  /\ ml_engine' = r.e
            /\ last' = [NoCall EXCEPT !.op = "update_training_data",
                                      !.rebuilt = r.rebuilt,
                                      !.stored = features.dict,
                                      !.evicted = IF features.dict
                                                  THEN Len(ml_engine.training_data) + 1
                                                       - Len(r.e.training_data)
                                                  ELSE 0,
                                      !.sample = IF features.dict
                                                 THEN Sample(features, labels) ELSE @]
            /\ UNCHANGED <<paper_trade, now, analyzer, regime_detector>>

TrainModels ==
    LET r == train_models(ml_engine)
    IN  /\ ml_engine' = r.e
        /\ last' = [NoCall EXCEPT !.op = "train_models", !.ok = r.ret]
        /\ UNCHANGED <<paper_trade, now, analyzer, regime_detector>>

Predict ==
    /\ last' = [NoCall EXCEPT !.op = "predict", !.ok = ~PredictReturnsNone(ml_engine)]
    /\ UNCHANGED <<paper_trade, now, ml_engine, analyzer, regime_detector>>

----------------------------------------------------------------------------
(* The inputs of the trading loops.                                        *)

Bullish == AtmColumns(200000, 100000, 2000000, 500000)
Bearish == AtmColumns(100000, 200000, 500000, 2000000)
Flat    == AtmColumns(100000, 100000, 500000, 500000)
NoChanges == Changes(0, 0, 0, 0)

Markets ==
    { Market(<<Row(24000, 10000, 10000)>>, 24000, Bullish, NoChanges, "mid_session"),
      Market(<<Row(24000, 10000, 10000)>>, 24000, Bullish, Changes(500, 0, 500, 0),
             "mid_session"),
      Market(<<Row(24000, 10000, 10000)>>, 24000, Bearish, Changes(0, 500, 0, 0), "other"),
      Market(<<Row(24000, 7000, 7000)>>, 24000, Flat, NoChanges, "mid_session"),
      Market(<<Row(24000, 10000, 10000)>>, 24000, Bullish, NoChanges, "opening"),
      Market(<<Row(24000, 11500, 11500)>>, 24000, Flat, NoChanges, "closing"),
      Market(<<Row(24050, 9000, 9000)>>, 24050, Flat, NoChanges, "other") }

(* What the collaborators of one cycle give: the output of the fitted      *)
(* models, the confidence boost, the risk check, the entry timing, the     *)
(* lots of calculate_position_size, the regime of detect_regime, and       *)
(* whether send_signal delivers a new signal (sent).                       *)
External(model_output, boost, risk_ok, timing_ok, lots, regime, sent) ==
    [model_output |-> model_output, boost |-> boost, risk_ok |-> risk_ok,
     timing_ok |-> timing_ok, lots |-> lots, regime |-> regime, sent |-> sent]

Externals ==
    { External(NoMlPrediction, 10, TRUE, TRUE, 1, "trending_low_vol", TRUE),
      External(MlPrediction(1, 72, 0, 50, 10, 50), 10, TRUE, TRUE, 1, "trending_low_vol",
               TRUE),
      External(MlPrediction(-1, 62, 1, 250, 25, 90), 10, TRUE, TRUE, 2, "unknown", FALSE),
      External(MlPrediction(0, 25, 0, 50, 10, 50), 10, TRUE, TRUE, 1, "unknown", FALSE),
      External(MlPrediction(1, 50, 0, 50, 10, 50), 10, TRUE, TRUE, 1, "trending_low_vol",
               FALSE),
      External(MlPrediction(1, 72, 0, 50, 10, 50), 13, FALSE, TRUE, 1, "trending_low_vol",
               TRUE),
      External(MlPrediction(1, 72, 0, 50, 10, 50), 10, TRUE, FALSE, 1, "trending_low_vol",
               FALSE),
      External(MlPrediction(1, 72, 0, 250, 10, 50), 10, TRUE, TRUE, 2, "trending_low_vol",
               FALSE) }

(* The store a run that trained its models left on disk.                   *)
TrainedStore ==
    save_models([EngineInit EXCEPT
                    !.trained_feature_names = InitialFeatureNames,
                    !.is_trained = TRUE,
                    !.scaler = [fitted |-> TRUE,
                                n_features_in |-> Len(InitialFeatureNames),
                                rows |-> MinTrainingSamples],
                    !.fitted = Classifiers \cup Regressors])

(* The price changes of the last MarketSamples samples of the market      *)
(* buffer, as generate_training_labels takes them: no change, and a rise   *)
(* of 3% between two consecutive snapshots.                                *)
PriceChanges == {0, 3000}
PriceChangeSeqs == [1..MarketSamples -> PriceChanges]

(* The keys of the trade_data dict check_exit returns.                     *)
TradeDataKeys ==
    {"exit_reason", "exit_price", "max_profit", "entry_price", "strike",
     "position_size", "direction", "regime", "pnl", "outcome"}

(* The keys the exit report of run_offline_simulation subscripts: a        *)
(* missing one raises KeyError, and the except clause of the loop goes on  *)
(* to the next sample.                                                     *)
OfflineReportKeys == {"position", "strike", "entry_price", "position_size", "exit_reason"}
OfflineReportRaises == ~(OfflineReportKeys \subseteq TradeDataKeys)

----------------------------------------------------------------------------
(* The actions of the trading loops.                                       *)

NotChecked(pt) == [pt |-> pt, ret |-> NoExit]
NotLearned(an, e) == [an |-> an, e |-> e, learned |-> FALSE]
NotCalled(pt) == [pt |-> pt, called |-> FALSE, opened |-> FALSE, while_open |-> FALSE]

(* One iteration of the loop of run_analysis with market data: analysis,   *)
(* collection of the snapshot, exit check with the learning update, the    *)
(* entry block after a sent signal, the entry block by threshold and the   *)
(* continuous learning block.                                              *)
RunAnalysis ==
    /\ ~analyzer.simulation
    /\ analyzer.training_counter < MaxLoopCounter
    /\ \E m \in Markets, x \in Externals :
       \E a \in {analyze_regime_with_ml(analyzer, ml_engine, m, x)} :
       \E pt0 \in {collect_market_data_for_training(paper_trade, m.current_data,
                                                     m.atm_strike)} :
       \E r \in {IF pt0.active
                 THEN check_exit(pt0, m.current_data, a.signal, a.regime, now)
                 ELSE NotChecked(pt0)} :
       \E l \in {IF r.ret.exited
                 THEN update_signal_with_learning(a.an, a.e, m, r.ret.pnl)
                 ELSE NotLearned(a.an, a.e)} :
       \E b1 \in {IF x.sent THEN EntryBlock(r.pt, m, a, now) ELSE NotCalled(r.pt)} :
       \E b2 \in {EntryBlock(b1.pt, m, a, now)} :
       \E an1 \in {IF r.ret.exited THEN RecordTrade(l.an, r.ret.pnl) ELSE l.an} :
       \E price_changes \in IF LearnsFromMarket(b2.pt, an1) THEN PriceChangeSeqs
                             ELSE {<<>>} :
            /\ paper_trade' = b2.pt
            /\ ml_engine' = ContinuousLearning(b2.pt, an1, l.e, price_changes)
            /\ analyzer' = an1
            /\ last' = [NoCall EXCEPT
                          !.op = "run_analysis", !.exit = r.ret,
                          !.learned = l.learned, !.ok = b1.called \/ b2.called,
                          !.enters = (IF b1.opened THEN <<"signal">> ELSE <<>>)
                                     \o (IF b2.opened THEN <<"threshold">> ELSE <<>>),
                          !.while_open = b1.while_open \/ b2.while_open,
                          !.signal = a.signal, !.strength = a.strength,
                          !.position_size = a.position_size,
                          !.predicted = a.predicted,
                          !.heuristic = traditional_analysis(extract_features(ml_engine, m))]
            /\ UNCHANGED <<now, regime_detector>>

(* run_offline_simulation up to its loop.                                  *)
StartOfflineSimulation ==
    /\ ~analyzer.simulation
    /\ analyzer' = [analyzer EXCEPT !.simulation = TRUE, !.processed_samples = 0]
    /\ last' = [NoCall EXCEPT !.op = "start_offline_simulation"]
    /\ UNCHANGED <<paper_trade, now, ml_engine, regime_detector>>

(* One iteration of the loop of run_offline_simulation over a stored       *)
(* sample.                                                                 *)
OfflineSample ==
    /\ analyzer.simulation
    /\ analyzer.processed_samples < MaxOfflineSamples
    /\ analyzer.training_counter < MaxLoopCounter
    /\ \E m \in Markets, x \in Externals :
       \E a \in {analyze_regime_with_ml(analyzer, ml_engine, m, x)} :
       \E pt0 \in {collect_market_data_for_training(paper_trade, m.current_data,
                                                     m.atm_strike)} :
       \E r \in {IF pt0.active
                 THEN check_exit(pt0, m.current_data, a.signal, a.regime, now)
                 ELSE NotChecked(pt0)} :
       \E raised \in {r.ret.exited /\ OfflineReportRaises} :
       \E l \in {IF r.ret.exited /\ ~raised
                 THEN update_signal_with_learning(a.an, a.e, m, r.ret.pnl)
                 ELSE NotLearned(a.an, a.e)} :
       \E an1 \in {IF r.ret.exited /\ ~raised THEN RecordTrade(l.an, r.ret.pnl)
                   ELSE l.an} :
       \E b \in {IF raised THEN NotCalled(r.pt) ELSE EntryBlock(r.pt, m, a, now)} :
       \E n \in {an1.processed_samples + 1} :
       \E f \in {extract_features(l.e, m)} :
       \E e1 \in {IF n % OfflineUpdateEvery = 0 /\ ~f.none
                  THEN update_training_data(l.e, FeatureMap(f.keys),
                                            generate_training_labels(0)).e
                  ELSE l.e} :
            /\ paper_trade' = b.pt
            /\ ml_engine' = IF raised THEN l.e
                             ELSE IF n % OfflineTrainEvery = 0 THEN train_models(e1).e
                             ELSE e1
            /\ analyzer' = IF raised THEN an1
                           ELSE [an1 EXCEPT !.processed_samples = n]
            /\ last' = [NoCall EXCEPT
                          !.op = "run_offline_simulation", !.exit = r.ret,
                          !.learned = l.learned, !.ok = b.called,
                          !.enters = IF b.opened THEN <<"threshold">> ELSE <<>>,
                          !.while_open = b.while_open,
                          !.signal = a.signal, !.strength = a.strength,
                          !.position_size = a.position_size,
                          !.predicted = a.predicted,
                          !.heuristic = traditional_analysis(extract_features(ml_engine, m))]
            /\ UNCHANGED <<now, regime_detector>>

(* run_offline_simulation after its loop: the final training.              *)
FinishOfflineSimulation ==
    /\ analyzer.simulation
    /\ ml_engine' = Saved(train_models(ml_engine).e)
    /\ analyzer' = [analyzer EXCEPT !.simulation = FALSE, !.processed_samples = 0]
    /\ last' = [NoCall EXCEPT !.op = "finish_offline_simulation"]
    /\ UNCHANGED <<paper_trade, now, regime_detector>>

----------------------------------------------------------------------------
(* The actions of the analysis on its own: one call of                     *)
(* analyze_regime_with_ml, one call of update_signal_with_learning.        *)

AnalysisMarkets ==
    {m \in Markets : m.atm_strike = 24000 /\ m.session \in {"mid_session", "other"}}

AnalysisExternals ==
    { External(NoMlPrediction, 10, TRUE, TRUE, 1, "trending_low_vol", FALSE),
      External(MlPrediction(1, 72, 0, 50, 10, 50), 10, TRUE, TRUE, 1, "unknown", FALSE),
      External(MlPrediction(-1, 75, 0, 50, 10, 50), 10, TRUE, TRUE, 1, "unknown", FALSE),
      External(MlPrediction(1, 62, 0, 50, 10, 50), 10, TRUE, TRUE, 1, "unknown", FALSE),
      External(MlPrediction(1, 67, 0, 50, 10, 50), 10, TRUE, TRUE, 1, "unknown", FALSE),
      External(MlPrediction(1, 32, 0, 50, 10, 50), 10, TRUE, TRUE, 1, "unknown", FALSE),
      External(MlPrediction(1, 37, 0, 50, 10, 50), 10, TRUE, TRUE, 1, "unknown", FALSE),
      External(MlPrediction(1, 42, 0, 50, 10, 50), 10, TRUE, TRUE, 1, "unknown", FALSE),
      External(MlPrediction(1, 25, 0, 50, 10, 50), 10, TRUE, TRUE, 1, "unknown", FALSE),
      External(MlPrediction(1, 72, 0, 50, 10, 50), 10, FALSE, TRUE, 1, "unknown", FALSE),
      External(MlPrediction(1, 72, 0, 50, 10, 50), 10, TRUE, FALSE, 1, "unknown", FALSE) }

(* The pnl of a closed trade, in paise.                                    *)
TradePnls == {3000}

Analyze ==
    /\ last.cycles < MaxCycles
    /\ analyzer.training_counter < MaxTrainingCounter
    /\ \E m \in AnalysisMarkets, x \in AnalysisExternals :
       \E a \in {analyze_regime_with_ml(analyzer, ml_engine, m, x)} :
            /\ analyzer' = a.an
            /\ ml_engine' = a.e
            /\ last' = [NoCall EXCEPT
                          !.op = "analyze_regime_with_ml",
                          !.signal = a.signal, !.strength = a.strength,
                          !.position_size = a.position_size, !.regime = a.regime,
                          !.heuristic = traditional_analysis(extract_features(ml_engine, m)),
                          !.cycles = IF a.extracted THEN last.cycles + 1 ELSE last.cycles,
                          !.extracted = a.extracted, !.updated = a.updated,
                          !.trained = a.trained, !.decision = a.decision,
                          !.stability_checked = a.stability_checked]
            /\ UNCHANGED <<paper_trade, now, regime_detector>>

UpdateSignalWithLearning ==
    /\ analyzer.training_counter < MaxTrainingCounter
    /\ \E m \in AnalysisMarkets, pnl \in TradePnls :
       \E r \in {update_signal_with_learning(analyzer, ml_engine, m, pnl)} :
            /\ analyzer' = r.an
            /\ ml_engine' = r.e
            /\ last' = [NoCall EXCEPT !.op = "update_signal_with_learning",
                                      !.learned = r.learned, !.cycles = last.cycles]
            /\ UNCHANGED <<paper_trade, now, regime_detector>>

----------------------------------------------------------------------------
(* The specifications.                                                     *)

AnalyzerInit ==
    [training_counter |-> 0, portfolio_performance |-> <<>>,
     signal_history |-> <<>>, simulation |-> FALSE, processed_samples |-> 0]

Init ==
    /\ paper_trade = PaperTradeInit(NoAttr)
    /\ now = 0
    /\ ml_engine = EngineInit
    /\ analyzer = AnalyzerInit
    /\ regime_detector = RegimeDetectorInit
    /\ last = NoCall

NextTrade == Enter \/ CheckExit \/ Tick
SpecTrade == Init /\ [][NextTrade]_vars

NextEngine == UpdateTrainingData \/ TrainModels \/ Predict
SpecEngine == Init /\ [][NextEngine]_vars

(* The analyzer constructed without and with a store on disk.              *)
InitOrch ==
    /\ paper_trade = PaperTradeInit(NoAttr)
    /\ now = 0
    /\ ml_engine \in {EngineInit, EngineWithStore(TrainedStore)}
    /\ analyzer = AnalyzerInit
    /\ regime_detector = RegimeDetectorInit
    /\ last = NoCall

NextOrch ==
    RunAnalysis \/ StartOfflineSimulation \/ OfflineSample
    \/ FinishOfflineSimulation
SpecOrch == InitOrch /\ [][NextOrch]_vars

(* The analyzer with the closed trades of an earlier session (TRUE for a   *)
(* trade with pnl > 0), constructed without and with a store on disk.      *)
PortfolioHistories == {<<>>, <<FALSE, FALSE>>, <<TRUE, FALSE>>, <<TRUE, TRUE>>}

InitAnalysis ==
    /\ paper_trade = PaperTradeInit(NoAttr)
    /\ now = 0
    /\ ml_engine \in {EngineInit, EngineWithStore(TrainedStore)}
    /\ analyzer \in {[AnalyzerInit EXCEPT !.portfolio_performance = h] :
                         h \in PortfolioHistories}
    /\ regime_detector = RegimeDetectorInit
    /\ last = NoCall

NextAnalysis == Analyze \/ UpdateSignalWithLearning
SpecAnalysis == InitAnalysis /\ [][NextAnalysis]_vars

----------------------------------------------------------------------------
(* Position sizing: calculate_position_size on any arguments, with any     *)
(* record of closed trades in the risk manager.                            *)

(* Ten closed trades: w winners of pnl win, the rest losers of pnl -loss.  *)
TenTrades(w, win, loss) == [i \in 1..10 |-> IF i <= w THEN win ELSE -loss]

TradeHistories ==
    {<<>>, TenTrades(6, 30, 15), TenTrades(5, 20, 15), TenTrades(0, 30, 15),
     TenTrades(10, 30, 15)}

AccountValues == {-100000, 0, 49999, 100000, 10000000}
Volatilities ==
    {PyFloat(-10), PyFloat(-5), NumpyFloat(-5), PyFloat(0), NumpyFloat(2)}
SizingConfidences == {0, 6, 40}
SignalStrengths == {0, 50, 120}

CalculatePositionSize ==
    \E trade_history \in TradeHistories, account_value \in AccountValues,
       volatility \in Volatilities, confidence \in SizingConfidences,
       signal_strength \in SignalStrengths :
        \E r \in {calculate_position_size(trade_history, account_value, volatility,
                                          confidence, signal_strength)} :
            /\ last' = [NoCall EXCEPT
                          !.op = "calculate_position_size",
                          !.sizing = [trade_history |-> trade_history,
                                      account_value |-> account_value,
                                      volatility |-> volatility,
                                      confidence |-> confidence,
                                      signal_strength |-> signal_strength,
                                      ret |-> r.ret, raised |-> r.raised]]
            /\ UNCHANGED <<paper_trade, now, ml_engine, analyzer, regime_detector>>

InitSizing ==
    /\ paper_trade = PaperTradeInit(NoAttr)
    /\ now = 0
    /\ ml_engine = EngineInit
    /\ analyzer = AnalyzerInit
    /\ regime_detector = RegimeDetectorInit
    /\ last = NoCall

NextSizing == CalculatePositionSize
SpecSizing == InitSizing /\ [][NextSizing]_vars

----------------------------------------------------------------------------
(* Persistence: the engine saved to its file and loaded from it, by the    *)
(* engine that wrote it or by one newly constructed.                       *)

SaveModels ==
    /\ ml_engine' = Saved(ml_engine)
    /\ last' = [NoCall EXCEPT !.op = "save_models", !.ok = ~SaveModelsFails(ml_engine)]
    /\ UNCHANGED <<paper_trade, now, analyzer, regime_detector>>

LoadModels ==
    /\ \E e \in {ml_engine, [EngineInit EXCEPT !.store = ml_engine.store]} :
           ml_engine' = IF e.store = <<>> THEN e ELSE load_models(e, e.store[1])
    /\ last' = [NoCall EXCEPT !.op = "load_models", !.ok = ml_engine.store # <<>>]
    /\ UNCHANGED <<paper_trade, now, analyzer, regime_detector>>

NextPersist == UpdateTrainingData \/ TrainModels \/ Predict \/ SaveModels \/ LoadModels
SpecPersist == Init /\ [][NextPersist]_vars

----------------------------------------------------------------------------
(* The heuristic: traditional_analysis on one snapshot at a time of day.   *)

HeuristicRows == {Row(24000, 5000, 4000), Row(24000, 10000, 10000)}
HeuristicColumns == {AtmColumns(2000, 3000, 1000, 1000), Bullish, Bearish, Flat}
HeuristicChanges == {NoChanges, Changes(0, 500, 0, 0)}
Hours == {9, 10, 12, 14, 15}
Minutes == {0, 45}

TraditionalAnalysis ==
    \E row \in HeuristicRows, atm \in HeuristicColumns, changes \in HeuristicChanges,
       hour \in Hours, minute \in Minutes :
        \E f \in {extract_features(ml_engine,
                       Market(<<row>>, row.Strike, atm, changes, SessionAt(hour, minute)))} :
            /\ last' = [NoCall EXCEPT !.op = "traditional_analysis",
                                      !.features = f, !.hour = hour, !.minute = minute,
                                      !.heuristic = traditional_analysis(f)]
            /\ UNCHANGED <<paper_trade, now, ml_engine, analyzer, regime_detector>>

NextHeuristic == TraditionalAnalysis
SpecHeuristic == Init /\ [][NextHeuristic]_vars

----------------------------------------------------------------------------
(* Regime detection: detect_regime called any number of times.             *)

UnderlyingValues == {0, 24000, 24100}
Estimates == {Estimate("low", TRUE), Estimate("medium", FALSE), Estimate("high", FALSE)}

(* initialize_regime_detector_with_stored_data: the stored prices, if any. *)
StoredPrices == {<<>>, <<24000>>}

DetectRegime ==
    /\ Len(regime_detector.regime_history) <= MaxRegimeHistory
    /\ \E underlying_value \in UnderlyingValues, estimate \in Estimates :
           \E r \in {detect_regime(regime_detector, underlying_value, estimate)} :
               /\ regime_detector' = r.rd
               /\ last' = [NoCall EXCEPT !.op = "detect_regime", !.regime = r.regime,
                                         !.price = underlying_value]
               /\ UNCHANGED <<paper_trade, now, ml_engine, analyzer>>

InitRegime ==
    /\ paper_trade = PaperTradeInit(NoAttr)
    /\ now = 0
    /\ ml_engine = EngineInit
    /\ analyzer = AnalyzerInit
    /\ regime_detector \in {[RegimeDetectorInit EXCEPT !.price_history = h] :
                                h \in StoredPrices}
    /\ last = NoCall

NextRegime == DetectRegime
SpecRegime == InitRegime /\ [][NextRegime]_vars

----------------------------------------------------------------------------
(* The position lifecycle: properties of enter() and check_exit().         *)

(* A step that is one call of enter(), of check_exit().                    *)
EnterStep == last'.op = "enter" /\ now' = now
CheckExitStep == last'.op = "check_exit" /\ now' = now

(* C1: enter() called while a position is active is a no-op: it returns    *)
(* false and leaves every field of the open position unchanged.            *)
C1_EnterWhileOpenIsNoOp ==
    [][(EnterStep /\ paper_trade.active) =>
            (~last'.ok /\ paper_trade' = paper_trade)]_vars

(* The five exit conditions, each on its own, for a position pt priced at  *)
(* ltp, and the order the reasons are to be tried in.                      *)
ExitPriority == <<"Stop Loss", "Signal Change", "Profit Target", "Time Exit",
                  "Trailing Stop">>
ExitConditionHolds(reason, pt, ltp, signal, regime, clock) ==
    LET profit == pt.entry_price - ltp
        best   == Max(pt.max_profit, profit)
    IN  CASE reason = "Stop Loss"     -> ltp >= pt.stop_loss
          [] reason = "Signal Change" -> signal = 0 \/ signal # pt.direction
          [] reason = "Profit Target" -> ltp <= pt.profit_target
          [] reason = "Time Exit"     -> clock - pt.entry_time > TimeLimit
          [] OTHER -> /\ best > TrailMinMaxProfit
                      /\ profit > TrailMinProfit
                      /\ profit * 100 < best * TrailingPct(pt, regime)

(* C2: the exit reason check_exit records is the first one, in the order   *)
(* Stop Loss > Signal Change > Profit Target > Time Exit > Trailing Stop,  *)
(* whose condition holds.                                                  *)
C2_ExitPriorityOrder ==
    [][(CheckExitStep /\ last'.exit.exited) =>
        LET ltp == IF paper_trade.direction = 1 THEN last'.row.Put_LTP
                   ELSE last'.row.Call_LTP
            holds(i) == ExitConditionHolds(ExitPriority[i], paper_trade, ltp,
                                           last'.signal, last'.regime, now)
        IN  \E i \in 1..Len(ExitPriority) :
                /\ last'.exit.exit_reason = ExitPriority[i]
                /\ holds(i)
                /\ \A j \in 1..(i - 1) : ~holds(j)]_vars

(* A stop-loss exit taken although the signal had changed as well.         *)
C2_Witness ==
    /\ last.op = "check_exit" /\ last.exit.exited
    /\ last.exit.exit_reason = "Stop Loss"
    /\ last.signal = 0
    /\ last.exit.exit_price = 11500

(* C3: on every exit, pnl is the entry price less the current price of the *)
(* entry strike's leg (the put for direction 1, the call for -1), and the  *)
(* outcome is 1 exactly when that pnl is positive.                         *)
C3_PnlAndOutcome ==
    [][(CheckExitStep /\ last'.exit.exited) =>
        LET leg == IF paper_trade.direction = 1 THEN last'.row.Put_LTP
                   ELSE last'.row.Call_LTP
        IN  /\ last'.exit.pnl = paper_trade.entry_price - leg
            /\ last'.exit.outcome \in {0, 1}
            /\ (last'.exit.outcome = 1) <=> (last'.exit.pnl > 0)]_vars

(* A position entered at 100.00 and closed at 70.00: pnl 30.00, outcome 1; *)
(* the row's other leg, at 30.00, is not the one that was priced.          *)
C3_Witness ==
    /\ last.op = "check_exit" /\ last.exit.exited
    /\ last.exit.exit_price = 7000 /\ last.row.Put_LTP = 7000
    /\ last.row.Call_LTP = 3000
    /\ last.exit.pnl = 3000 /\ last.exit.outcome = 1

(* C7: whenever enter() returns false the position state is unchanged.     *)
C7_FailedEnterChangesNothing ==
    [][(EnterStep /\ ~last'.ok) => paper_trade' = paper_trade]_vars

----------------------------------------------------------------------------
(* The engine: properties of update_training_data() and train_models().    *)

IsPrefix(a, b) == Len(a) <= Len(b) /\ SubSeq(b, 1, Len(a)) = a

(* C4: update_training_data never shrinks or reorders feature_names: the   *)
(* list before a call is a prefix of the list after it.                    *)
C4_FeatureNamesOnlyGrow ==
    [][last'.op = "update_training_data" =>
            IsPrefix(ml_engine.feature_names, ml_engine'.feature_names)]_vars

(* The list extended by two unseen keys, in key order, from a feature map  *)
(* that also held a key already in the list.                               *)
C4_Witness ==
    /\ last.op = "update_training_data"
    /\ ml_engine.feature_names = InitialFeatureNames \o <<"rsi", "vix">>

(* The targets of the four classifiers, and whether the labels of a        *)
(* training set take fewer than two distinct values for a target.          *)
Targets == {"regime", "confidence", "pattern", "signal_direction"}
LacksDiversity(data, target) ==
    Cardinality({SampleLabels(data[i])[target] : i \in 1..Len(data)}) < 2

(* C5: a train_models cycle over enough samples in which exactly one       *)
(* classification target lacks diversity is not aborted: the three         *)
(* regressors are fitted and is_trained is true afterwards.                *)
C5_DiversityGatesOneClassifier ==
    [][(/\ last'.op = "train_models"
        /\ Len(ml_engine.training_data) >= MinTrainingSamples
        /\ ml_engine.feature_names # <<>>
        /\ Cardinality({t \in Targets :
                            LacksDiversity(ml_engine.training_data, t)}) = 1)
       => (/\ last'.ok
           /\ ml_engine'.is_trained
           /\ Regressors \subseteq ml_engine'.fitted)]_vars

(* C9: a train_models call that returns false leaves                       *)
(* trained_feature_names, is_trained and the scaler as they were.          *)
C9_FailedTrainingChangesNothing ==
    [][(last'.op = "train_models" /\ ~last'.ok) =>
            /\ ml_engine'.trained_feature_names = ml_engine.trained_feature_names
            /\ ml_engine'.is_trained = ml_engine.is_trained
            /\ ml_engine'.scaler = ml_engine.scaler]_vars

(* C10: an update_training_data call that adds no name to feature_names    *)
(* leaves the sequence model and its optimizer untouched.                  *)
C10_NoNewNameKeepsSequenceModel ==
    [][(/\ last'.op = "update_training_data"
        /\ ml_engine'.feature_names = ml_engine.feature_names)
       => (/\ ~last'.rebuilt
           /\ ml_engine'.deep_model = ml_engine.deep_model
           /\ ml_engine'.optimizer = ml_engine.optimizer)]_vars

----------------------------------------------------------------------------
(* The trading loops: properties of one cycle.                             *)

(* A step that is one iteration of the loop of run_analysis or of          *)
(* run_offline_simulation.                                                 *)
CycleStep == last'.op \in {"run_analysis", "run_offline_simulation"}

(* C6: in every cycle, live or offline, in which check_exit closes a       *)
(* position, update_signal_with_learning runs and appends a sample         *)
(* labelled from the trade's pnl.                                          *)
C6_EveryExitIsLearned ==
    [][(CycleStep /\ last'.exit.exited) =>
        LET data == ml_engine'.training_data
        IN  /\ last'.learned
            /\ data # <<>>
            /\ data[Len(data)].labels = generate_training_labels(last'.exit.pnl)]_vars

(* C8: in a cycle that starts with is_trained false, predict() returns no  *)
(* record and analyze_regime_with_ml returns exactly the signal and the    *)
(* strength of the heuristic.                                              *)
C8_UntrainedUsesHeuristic ==
    [][(CycleStep /\ ~ml_engine.is_trained) =>
            /\ ~last'.predicted
            /\ last'.signal = last'.heuristic.signal
            /\ last'.strength = 100 * last'.heuristic.strength]_vars

(* A live cycle of an untrained engine that returned the heuristic's       *)
(* SHORT_CALL signal of strength 4.                                        *)
C8_Witness ==
    /\ last.op = "run_analysis"
    /\ ~ml_engine.is_trained
    /\ ~last.predicted
    /\ last.heuristic = Heuristic(-1, 4)
    /\ last.signal = -1 /\ last.strength = 400

----------------------------------------------------------------------------
(* The analysis: properties of analyze_regime_with_ml().                   *)

(* A step that is one call of analyze_regime_with_ml.                      *)
AnalyzeStep == last'.op = "analyze_regime_with_ml"

(* The number of the last StabilityWindow recorded signals equal to s.     *)
RecentVotes(history, s) ==
    Cardinality({i \in 1..Len(history) :
                    i > Len(history) - StabilityWindow /\ history[i] = s})

(* C11: once at least three signals are recorded, a final signal that      *)
(* differs from the previously recorded one comes out of                   *)
(* check_signal_stability unchanged only if at least 2 of the last 3       *)
(* recorded signals, the new one included, equal it; otherwise the filter  *)
(* returns 0.                                                              *)
C11_StabilityFilterNeedsTwoOfThree ==
    [][(/\ AnalyzeStep /\ last'.stability_checked
        /\ Len(analyzer'.signal_history) >= StabilityWindow
        /\ last'.decision.final_signal
              # analyzer'.signal_history[Len(analyzer'.signal_history) - 1])
       => last'.signal =
            IF RecentVotes(analyzer'.signal_history, last'.decision.final_signal)
                   >= StabilityVotes
            THEN last'.decision.final_signal ELSE 0]_vars

(* C12: in the trained path, for an enhanced confidence c at or above the  *)
(* threshold and at least 0.7, the signal chosen before the risk, timing   *)
(* and stability gates is the model's signal when c >= 0.8, when the model *)
(* and the heuristic agree, and when they disagree with c >= 0.75; with a  *)
(* disagreement and c < 0.75 the analysis is rejected with signal 0.       *)
C12_ConfidenceBandsChooseSignal ==
    [][(/\ AnalyzeStep /\ last'.decision.band # "none"
        /\ last'.decision.enhanced >= last'.decision.threshold
        /\ last'.decision.enhanced >= 70)
       => LET d == last'.decision
              takes_model == \/ d.enhanced >= 80
                             \/ d.ml_signal = last'.heuristic.signal
                             \/ d.enhanced >= 75
          IN  IF takes_model THEN ~d.rejected /\ d.final_signal = d.ml_signal
              ELSE d.rejected /\ d.final_signal = 0 /\ last'.signal = 0]_vars

(* The model's SHORT_PUT signal taken at confidence 0.77 against the       *)
(* heuristic's SHORT_CALL signal.                                          *)
C12_Witness ==
    /\ last.op = "analyze_regime_with_ml"
    /\ last.decision.enhanced = 77 /\ last.decision.ml_signal = 1
    /\ last.heuristic.signal = -1
    /\ ~last.decision.rejected /\ last.decision.final_signal = 1
    /\ last.signal = 1

(* The win rate of the last RecentTrades closed trades, in percent; -1     *)
(* with fewer trades than that.                                            *)
RecentWinRate(portfolio_performance) ==
    LET n == Len(portfolio_performance)
    IN  IF n < RecentTrades THEN -1
        ELSE (100 * Cardinality({i \in 1..n : portfolio_performance[i]})) \div n

(* C13: the confidence threshold of the trained path is 0.55 with a recent *)
(* win rate below 40%, 0.45 with one above 70% and the base 0.40           *)
(* otherwise, in particular with a win rate between 40% and 70%; a         *)
(* prediction below the threshold yields signal 0.                         *)
C13_ThresholdValues ==
    [][(AnalyzeStep /\ last'.decision.band # "none")
       => LET rate == RecentWinRate(analyzer.portfolio_performance)
              d    == last'.decision
          IN  /\ d.threshold = IF rate # -1 /\ rate < 40 THEN 55
                               ELSE IF rate > 70 THEN 45
                               ELSE 40
              /\ d.enhanced < d.threshold => last'.signal = 0]_vars

(* C13, amended: the threshold is 0.40 while fewer than 10 trades are      *)
(* closed; with 10 or more it is 0.55 for a win rate below 40%, 0.45 for   *)
(* one above 70% and 0.50 in between; a prediction below the threshold     *)
(* yields signal 0.                                                        *)
C13_ThresholdValuesAmended ==
    [][(AnalyzeStep /\ last'.decision.band # "none")
       => LET rate == RecentWinRate(analyzer.portfolio_performance)
              d    == last'.decision
          IN  /\ d.threshold = IF rate = -1 THEN 40
                               ELSE IF rate < 40 THEN 55
                               ELSE IF rate > 70 THEN 45
                               ELSE 50
              /\ d.enhanced < d.threshold => last'.signal = 0 /\ d.rejected]_vars

(* A prediction of confidence 0.47 rejected at the threshold 0.50 of a     *)
(* win rate of 50%.                                                        *)
C13_Witness ==
    /\ last.op = "analyze_regime_with_ml"
    /\ RecentWinRate(analyzer.portfolio_performance) = 50
    /\ last.decision.threshold = 50 /\ last.decision.enhanced = 47
    /\ last.decision.rejected /\ last.signal = 0

(* C14: counting every call of analyze_regime_with_ml that extracts        *)
(* features, the analysis calls update_training_data on exactly every 5th  *)
(* call and train_models on exactly every 25th, whatever trade closes and  *)
(* rejected signals lie in between.                                        *)
C14_TrainingCadence ==
    [][(AnalyzeStep /\ last'.extracted)
       => /\ last'.updated <=> (last'.cycles % UpdateEvery = 0)
          /\ last'.trained <=> (last'.cycles % TrainEvery = 0)]_vars

----------------------------------------------------------------------------
(* The position lifecycle: further properties of check_exit() and enter(). *)

(* C15: a check_exit call on an open position more than 7200 seconds after *)
(* its entry closes the position, whatever the snapshot holds: it returns  *)
(* a result and the trade is flat afterwards.                              *)
C15_TimeExitIsGuaranteed ==
    [][(/\ CheckExitStep /\ paper_trade.active
        /\ now - paper_trade.entry_time > TimeLimit)
       => (/\ last'.exit.exited
           /\ ~paper_trade'.active /\ paper_trade'.position = "None")]_vars

(* The retracement allowance derived from a regime, in hundredths.         *)
RegimeAllowance(regime) ==
    IF IsTrending(regime) THEN 40 ELSE IF IsSideways(regime) THEN 60 ELSE 50

(* C16: for a position entered without a prediction record, when no exit   *)
(* condition of higher priority holds, check_exit exits with 'Trailing     *)
(* Stop' exactly when max_profit > 8.0, profit > 2.0 and profit is below   *)
(* max_profit times the allowance of the regime passed to check_exit (0.4  *)
(* trending, 0.6 sideways, 0.5 otherwise).                                 *)
C16_TrailingAllowanceFromRegime ==
    [][(/\ CheckExitStep /\ paper_trade.active /\ last.entry = "traditional"
        /\ last'.row # Row(0, 0, 0))
       => LET ltp    == IF paper_trade.direction = 1 THEN last'.row.Put_LTP
                        ELSE last'.row.Call_LTP
              profit == paper_trade.entry_price - ltp
              best   == Max(paper_trade.max_profit, profit)
              due    == /\ best > TrailMinMaxProfit /\ profit > TrailMinProfit
                        /\ profit * 100 < best * RegimeAllowance(last'.regime)
          IN  (\A i \in 1..4 :
                  ~ExitConditionHolds(ExitPriority[i], paper_trade, ltp, last'.signal,
                                      last'.regime, now))
              => ((last'.exit.exited /\ last'.exit.exit_reason = "Trailing Stop")
                     <=> due)]_vars

(* C17: in every state where a position is open after a successful        *)
(* enter(), with or without a prediction record, profit_target <           *)
(* entry_price < stop_loss, the stop is within [1.05, 1.20] x entry and    *)
(* the target within [0.4, 0.7] x entry.                                   *)
C17_StopAboveTargetBelowEntry ==
    (paper_trade.active /\ last.entry \in {"traditional", "predicted"})
    => /\ paper_trade.profit_target < paper_trade.entry_price
       /\ paper_trade.entry_price < paper_trade.stop_loss
       /\ 105 * paper_trade.entry_price <= 100 * paper_trade.stop_loss
       /\ 100 * paper_trade.stop_loss <= 120 * paper_trade.entry_price
       /\ 4 * paper_trade.entry_price <= 10 * paper_trade.profit_target
       /\ 10 * paper_trade.profit_target <= 7 * paper_trade.entry_price

(* A position entered at 100.00 with a prediction of stop_loss_pct 0.30    *)
(* and confidence 0.50: the stop clamped to 120.00, the target at 70.00,   *)
(* still open after a check_exit.                                          *)
C17_Witness ==
    /\ paper_trade.active /\ last.entry = "predicted"
    /\ last.op = "check_exit"
    /\ paper_trade.entry_price = 10000
    /\ paper_trade.stop_loss = 12000 /\ paper_trade.profit_target = 7000

(* C18: check_exit on a flat trade returns nothing and modifies nothing;   *)
(* on an open trade it either returns nothing, with the trade still open,  *)
(* its side, entry price, entry strike, size, stop and target unchanged    *)
(* and max_profit not decreased, or returns a result with the trade reset  *)
(* to flat.                                                                *)
C18_CheckExitOnlyCloses ==
    [][CheckExitStep =>
        IF ~paper_trade.active
        THEN ~last'.exit.exited /\ paper_trade' = paper_trade
        ELSE IF ~last'.exit.exited
        THEN /\ paper_trade'.active
             /\ paper_trade'.position = paper_trade.position
             /\ paper_trade'.direction = paper_trade.direction
             /\ paper_trade'.entry_price = paper_trade.entry_price
             /\ paper_trade'.entry_strike = paper_trade.entry_strike
             /\ paper_trade'.position_size = paper_trade.position_size
             /\ paper_trade'.stop_loss = paper_trade.stop_loss
             /\ paper_trade'.profit_target = paper_trade.profit_target
             /\ paper_trade'.max_profit >= paper_trade.max_profit
        ELSE /\ ~paper_trade'.active
             /\ paper_trade'.position = "None"
             /\ paper_trade'.entry_price = 0 /\ paper_trade'.max_profit = 0]_vars

(* A check_exit at a profit of 1.00 that left open a position whose        *)
(* max_profit had reached 30.00.                                           *)
C18_Witness ==
    /\ last.op = "check_exit" /\ ~last.exit.exited
    /\ paper_trade.active /\ paper_trade.entry_price = 10000
    /\ last.row.Put_LTP = 9900 /\ paper_trade.direction = 1
    /\ paper_trade.max_profit = 3000

----------------------------------------------------------------------------
(* The trading loops: further properties of one cycle.                     *)

(* C19: in one cycle of run_analysis or of run_offline_simulation at most  *)
(* one position is opened, and enter() is never called while a position is *)
(* open, although the live loop has two entry paths.                       *)
C19_SingleEntryPerCycle ==
    [][CycleStep => (Len(last'.enters) <= 1 /\ ~last'.while_open)]_vars

(* A live cycle that opened a position after the signal was sent, so that  *)
(* the entry by threshold found it open.                                   *)
C19_Witness ==
    /\ last.op = "run_analysis"
    /\ last.enters = <<"signal">>
    /\ paper_trade.active /\ paper_trade.position = "SHORT_PUT"

----------------------------------------------------------------------------
(* Position sizing: the lots calculate_position_size returns.              *)

SizingStep == last'.op = "calculate_position_size"

(* C20: for all inputs, a zero account value or a pathological volatility  *)
(* included, calculate_position_size returns a whole number of lots L with *)
(* 1 <= L <= max(1, account_value // 50000), and an internal error yields  *)
(* exactly 1 lot.                                                          *)
C20_PositionSizeWithinLots ==
    [][SizingStep =>
          /\ last'.sizing.ret \in Int
          /\ 1 <= last'.sizing.ret
          /\ last'.sizing.ret <= Max(1, last'.sizing.account_value \div 50000)
          /\ (last'.sizing.raised => last'.sizing.ret = 1)]_vars

(* A call with a volatility of -0.5 raised and returned 1 lot on an        *)
(* account that allows 200.                                                *)
C20_Witness ==
    /\ last.op = "calculate_position_size"
    /\ last.sizing.volatility = PyFloat(-5)
    /\ last.sizing.account_value = 10000000
    /\ last.sizing.raised
    /\ last.sizing.ret = 1

----------------------------------------------------------------------------
(* The engine's buffers and schema.                                        *)

UpdateTrainingDataStep == last'.op = "update_training_data"

(* C21: after any update_training_data call training_data holds at most    *)
(* max_training_samples entries; a call that stores a sample leaves it     *)
(* last, and what is kept before it are the most recent of the samples     *)
(* held before, in insertion order, so only the oldest are evicted.        *)
C21_TrainingDataBounded ==
    [][UpdateTrainingDataStep =>
          LET old == ml_engine.training_data
              new == ml_engine'.training_data
              kept == Len(new) - 1
          IN  /\ Len(new) <= MaxTrainingSamples
              /\ IF last'.stored
                 THEN /\ Len(new) = Min(Len(old) + 1, MaxTrainingSamples)
                      /\ new[Len(new)] = last'.sample
                      /\ \A i \in 1..kept : new[i] = old[Len(old) - kept + i]
                 ELSE new = old]_vars

(* A call on a full buffer evicted the oldest sample, which differed from  *)
(* the one kept.                                                           *)
C21_Witness ==
    /\ last.op = "update_training_data"
    /\ last.stored /\ last.evicted = 1
    /\ Len(ml_engine.training_data) = MaxTrainingSamples
    /\ ml_engine.training_data[1] # ml_engine.training_data[MaxTrainingSamples]
    /\ ml_engine.training_data[MaxTrainingSamples] = last.sample

DetectRegimeStep == last'.op = "detect_regime"

(* C22: under any number of detect_regime calls price_history never holds  *)
(* more than its cap of entries, the oldest being dropped first, and       *)
(* regime_history stays within a fixed maximum length too.                 *)
C22_DetectorHistoriesBounded ==
    /\ Len(regime_detector.price_history) <= MaxPriceHistory
    /\ Len(regime_detector.regime_history) <= MaxRegimeHistory

(* The part of C22 that is about price_history: a call that is given a     *)
(* price leaves it last and keeps before it the most recent of the prices  *)
(* held, within the cap.                                                   *)
PriceHistoryBounded ==
    [][DetectRegimeStep =>
          LET old == regime_detector.price_history
              new == regime_detector'.price_history
              kept == Len(new) - 1
          IN  /\ Len(new) <= MaxPriceHistory
              /\ IF last'.price # 0
                 THEN /\ Len(new) = Min(Len(old) + 1, MaxPriceHistory)
                      /\ new[Len(new)] = last'.price
                      /\ \A i \in 1..kept : new[i] = old[Len(old) - kept + i]
                 ELSE new = old]_vars

----------------------------------------------------------------------------
(* The heuristic on the scenario snapshot.                                 *)

TraditionalAnalysisStep == last'.op = "traditional_analysis"

(* The ATM row of the scenario: Call_LTP 50, Put_LTP 40, Call_OI 2000,     *)
(* Put_OI 3000, equal volumes and no change against the previous minute.   *)
ScenarioFeatures(f) ==
    /\ ~f.none
    /\ f.call_ltp = 5000 /\ f.put_ltp = 4000
    /\ f.atm.Call_OI = 2000 /\ f.atm.Put_OI = 3000
    /\ f.atm.Call_Volume = f.atm.Put_Volume
    /\ f.changes = NoChanges

(* C23: on the scenario snapshot traditional_analysis returns signal 0 at  *)
(* every time of day, the mid-session hours 10:00 to 14:59 included.       *)
C23_ScenarioGivesNoSignal ==
    [][(TraditionalAnalysisStep /\ ScenarioFeatures(last'.features))
          => last'.heuristic.signal = 0]_vars

(* Outside the mid-session hours the scenario gives signal 0.              *)
ScenarioGivesNoSignalOffSession ==
    [][(TraditionalAnalysisStep /\ ScenarioFeatures(last'.features)
           /\ last'.features.session # "mid_session")
          => last'.heuristic = Heuristic(0, 0)]_vars

----------------------------------------------------------------------------
(* Persistence of the schema.                                              *)

(* A call of load_models() that follows a save_models() that returned True. *)
LoadAfterSaveStep ==
    last'.op = "load_models" /\ last.op = "save_models" /\ last.ok

(* C24: save_models() that returns True followed by load_models() restores *)
(* feature_names, trained_feature_names and is_trained to exactly the      *)
(* values they had when saved, an empty trained_feature_names of an engine *)
(* that has never trained included.                                        *)
C24_SchemaRoundTrip ==
    [][LoadAfterSaveStep =>
          /\ ml_engine'.feature_names = ml_engine.feature_names
          /\ ml_engine'.trained_feature_names = ml_engine.trained_feature_names
          /\ ml_engine'.is_trained = ml_engine.is_trained]_vars

(* The round trip of an engine that holds trained names restores all three. *)
SchemaRoundTripOnceFrozen ==
    [][(LoadAfterSaveStep /\ ml_engine.trained_feature_names # <<>>) =>
          /\ ml_engine'.feature_names = ml_engine.feature_names
          /\ ml_engine'.trained_feature_names = ml_engine.trained_feature_names
          /\ ml_engine'.is_trained = ml_engine.is_trained]_vars

----------------------------------------------------------------------------
(* The trained path of the analysis.                                       *)

(* An analysis that took the trained path as far as its decision.          *)
TrainedStep == AnalyzeStep /\ last'.decision.band # "none"

(* C25: when the engine is trained and predict() reports the bearish class *)
(* (regime -1) with an enhanced confidence of at least 0.8, the analysis   *)
(* selects -1 as the model signal, and it is the final signal.             *)
C25_BearishClassGivesShortCall ==
    [][(TrainedStep /\ last'.decision.ml_regime = -1 /\ last'.decision.enhanced >= 80)
          => (last'.decision.ml_signal = -1 /\ last'.decision.final_signal = -1)]_vars

(* No analysis on the trained path selects -1 as the model signal.         *)
TrainedPathNeverShortCall ==
    [][TrainedStep => last'.decision.ml_signal # -1]_vars

(* C27: on the trained path, an enhanced confidence of at least the        *)
(* threshold but below 0.7 makes the analysis return signal 0, strength 0  *)
(* and position size 0 with the regime 'unknown'; the training data is not *)
(* updated, the counter does not advance and the stability filter does not *)
(* run, so the signal history is left as it was.                           *)
C27_MidConfidenceReturnsNeutral ==
    [][(TrainedStep /\ last'.decision.enhanced >= last'.decision.threshold
                    /\ last'.decision.enhanced < 70)
          => /\ last'.signal = 0 /\ last'.strength = 0 /\ last'.position_size = 0
             /\ last'.regime = "unknown"
             /\ ~last'.updated /\ ~last'.trained /\ ~last'.stability_checked
             /\ analyzer'.signal_history = analyzer.signal_history
             /\ analyzer'.training_counter = analyzer.training_counter
             /\ ml_engine'.training_data = ml_engine.training_data]_vars

(* An analysis whose model signal was 1 at an enhanced confidence between  *)
(* the threshold and 0.7 returned neutral, after earlier analyses had      *)
(* filled the signal history.                                              *)
C27_Witness ==
    /\ last.op = "analyze_regime_with_ml" /\ last.decision.band = "unbound"
    /\ last.decision.ml_signal = 1
    /\ last.decision.enhanced >= last.decision.threshold /\ last.decision.enhanced < 70
    /\ last.signal = 0 /\ last.strength = 0 /\ last.position_size = 0
    /\ ~last.stability_checked /\ analyzer.signal_history # <<>>

----------------------------------------------------------------------------
(* Exit and entry within one cycle of the loops.                           *)

(* C28: in a cycle of run_analysis or run_offline_simulation in which      *)
(* check_exit returns an exit, no enter() succeeds later in the cycle, and *)
(* no position is active at the end of the cycle.                          *)
C28_ClosingCycleNeverOpens ==
    [][(last'.op \in {"run_analysis", "run_offline_simulation"} /\ last'.exit.exited)
          => (last'.enters = <<>> /\ ~paper_trade'.active)]_vars

(* The same for the cycles of run_offline_simulation alone.                *)
OfflineClosingCycleNeverOpens ==
    [][(last'.op = "run_offline_simulation" /\ last'.exit.exited)
          => (last'.enters = <<>> /\ ~paper_trade'.active)]_vars

----------------------------------------------------------------------------
(* The lots of a position the loops open.                                  *)

(* C29: every position a cycle of the loops opens has at most              *)
(* max(requested lots, 10) lots, the requested lots being the position     *)
(* size the analysis returned: the lots from the prediction record,        *)
(* round(position_size * 10), are between 1 and 10, for the record of      *)
(* predict() and for the one derived from the heuristic.                   *)
C29_OpenedLotsBounded ==
    [][(CycleStep /\ last'.enters # <<>>)
          => paper_trade'.position_size <= Max(last'.position_size, 10)]_vars

(* The same for the positions opened with the record of predict().         *)
PredictedLotsBounded ==
    [][(CycleStep /\ last'.enters # <<>> /\ last'.predicted)
          => paper_trade'.position_size <= Max(last'.position_size, 10)]_vars

----------------------------------------------------------------------------
(* The frozen schema.                                                      *)

(* A call of update_training_data, train_models or predict.                *)
EngineCallStep == last'.op \in {"update_training_data", "train_models", "predict"}

(* C30: once trained_feature_names is not empty, no call of                *)
(* update_training_data, train_models or predict modifies it, and it stays *)
(* a prefix of feature_names.                                              *)
C30_FrozenSchemaNeverModified ==
    [][(EngineCallStep /\ ml_engine.trained_feature_names # <<>>)
          => /\ ml_engine'.trained_feature_names = ml_engine.trained_feature_names
             /\ IsPrefix(ml_engine'.trained_feature_names, ml_engine'.feature_names)]_vars

(* The same for an engine whose trained_feature_names is a list of its     *)
(* own, as train_models leaves it.                                         *)
OwnFrozenSchemaNeverModified ==
    [][(EngineCallStep /\ ml_engine.trained_feature_names # <<>> /\ ~ml_engine.names_shared)
          => /\ ml_engine'.trained_feature_names = ml_engine.trained_feature_names
             /\ IsPrefix(ml_engine'.trained_feature_names, ml_engine'.feature_names)]_vars

----------------------------------------------------------------------------
(* The exit reason and the outcome of the trade.                           *)

(* C26: for a position opened by a successful enter(), an exit for 'Stop   *)
(* Loss' has pnl < 0 and outcome 0, an exit for 'Profit Target' has        *)
(* pnl > 0 and outcome 1, and an exit for 'Trailing Stop' has pnl > 2.0    *)
(* and outcome 1.                                                          *)
C26_ExitReasonDeterminesOutcome ==
    [][(CheckExitStep /\ last'.exit.exited /\ last'.closed \in {"traditional", "predicted"})
          => LET x == last'.exit
             IN  /\ x.exit_reason = "Stop Loss" => (x.pnl < 0 /\ x.outcome = 0)
                 /\ x.exit_reason = "Profit Target" => (x.pnl > 0 /\ x.outcome = 1)
                 /\ x.exit_reason = "Trailing Stop" => (x.pnl > 200 /\ x.outcome = 1)]_vars

(* A position entered with a prediction record was closed by its trailing  *)
(* stop, at a profit.                                                      *)
C26_Witness ==
    /\ last.op = "check_exit" /\ last.exit.exited
    /\ last.closed = "predicted"
    /\ last.exit.exit_reason = "Trailing Stop"
    /\ last.exit.pnl > 200 /\ last.exit.outcome = 1

====
